---- MODULE Spec2Model ----
(***************************************************************************)
(* A model of the SPX -> HTML engine of crates/engine_spx2html:             *)
(*   lib.rs    - the event state machine (Initializing -> Emitting), the   *)
(*               font registry, the canvas layout and file finalization;   *)
(*   assets.rs - the asset manager (registration, emit, into_serialize).   *)
(*                                                                         *)
(* Strings of the program are sequences of one-character strings, so that  *)
(* split('/'), split_once(' '), ends_with('>') and is_empty() are computed *)
(* as the code computes them.  A special is the record [cmd, arg]: cmd is  *)
(* the literal command prefix that the chain of strip_prefix / == tests of *)
(* the code matches, arg is the remainder of the contents.                 *)
(***************************************************************************)
EXTENDS Integers, Sequences, FiniteSets, TLC

VARIABLES
    state,      \* EngineState.state : State (Invalid | Initializing | Emitting)
    common,     \* what the handlers do to the outside through Common
    result,     \* "ok" | "err" | "panic": how the last handler ended
    done,       \* EngineState::finished has been called
    last,       \* the event that was processed last (observation)
    seen,       \* the first define_native_font event of each font id (observation)
    region,     \* cs / ce events counted since the canvas region opened (observation)
    nev,        \* number of events processed so far
    path_in,    \* the path that this run's path-carrying specials name (input)
    hist,       \* the events processed so far, when the run records them
    assets,     \* Assets.paths, or Consumed once emit / into_serialize took it
    asset_out   \* what the last Assets operation returned

vars == <<state, common, result, done, last, seen, region, nev, path_in, hist, assets, asset_out>>

-----------------------------------------------------------------------------
(* Bounds of the model. *)

MaxPathLen == 5
MaxFontEvents == 4
MaxCanvasEvents == 7
MaxPhaseEvents == 5
MaxPathEvents == 4
MaxAssetOps == 3
MaxContentEvents == 5
MaxSanitizeEvents == 3

-----------------------------------------------------------------------------
(* Strings and maps. *)

EmptyMap == [x \in {} |-> 0]

MapPut(m, k, v) == [x \in (DOMAIN m) \cup {k} |-> IF x = k THEN v ELSE m[x]]

Min(S) == CHOOSE x \in S : \A y \in S : x <= y

Last(s) == s[Len(s)]

\* str::split(sep): the pieces between the separators, empty pieces included
RECURSIVE Split(_, _)
Split(s, sep) ==
    IF \A i \in 1..Len(s) : s[i] # sep
    THEN <<s>>
    ELSE LET i == Min({j \in 1..Len(s) : s[j] = sep})
         IN  <<SubSeq(s, 1, i - 1)>> \o Split(SubSeq(s, i + 1, Len(s)), sep)

\* str::split_once(sep): None, or the text before and after the first separator
split_once(s, sep) ==
    IF \A i \in 1..Len(s) : s[i] # sep
    THEN [some |-> FALSE, a |-> <<>>, b |-> <<>>]
    ELSE LET i == Min({j \in 1..Len(s) : s[j] = sep})
         IN  [some |-> TRUE, a |-> SubSeq(s, 1, i - 1), b |-> SubSeq(s, i + 1, Len(s))]

\* all strings over alphabet A of length 0..n
RECURSIVE StringsUpTo(_, _)
StringsUpTo(A, n) ==
    IF n = 0 THEN {<<>>}
    ELSE LET R == StringsUpTo(A, n - 1)
         IN  R \cup {Append(s, a) : s \in R, a \in A}

Count(s, x) == Cardinality({i \in 1..Len(s) : s[i] = x})

OTF == <<".", "o", "t", "f">>
IndexHtml == <<"i", "n", "d", "e", "x", ".", "h", "t", "m", "l">>
DotDot == <<".", ".">>

-----------------------------------------------------------------------------
(* The outside: the input resolver's files and the output directory. *)

\* What the input resolver can open.  kind "font" is an OpenType file with
\* `faces` faces, "junk" is a file that is no font, "tpl" is a template that
\* compiles and renders, "badtpl" one that does not.
InputFiles ==
    (<<"a">> \o OTF) :> [kind |-> "font", faces |-> 2] @@
    <<"b">>          :> [kind |-> "font", faces |-> 1] @@
    <<"j">>          :> [kind |-> "junk", faces |-> 0] @@
    <<"t">>          :> [kind |-> "tpl", faces |-> 0] @@
    <<"u">>          :> [kind |-> "badtpl", faces |-> 0]

\* The directories that exist below the output base (File::create makes none).
OutDirs == {<<>>, <<<<"a">>>>, <<<<"a">>, <<"a">>>>, <<<<"a">>, <<"b">>>>}

\* hooks.io().input_open_name: Ok(handle) or NotAvailable
input_open_name(name) == name \in DOMAIN InputFiles

\* a path as the file system resolves it: "." names the directory itself,
\* ".." its parent, which for the output base is a directory outside of it
RECURSIVE Resolve(_)
Resolve(segs) ==
    IF segs = <<>> THEN <<>>
    ELSE LET r == Resolve(SubSeq(segs, 1, Len(segs) - 1))
             p == Last(segs)
         IN  IF p = <<".">> THEN r
             ELSE IF p = DotDot /\ r # <<>> /\ Last(r) # DotDot
             THEN SubSeq(r, 1, Len(r) - 1)
             ELSE Append(r, p)

\* File::create + write_all at out_base joined with `segs`: fails when the
\* parent directory is missing or the path is a directory
create_ok(segs) ==
    /\ Len(segs) > 0
    /\ Last(segs) \notin {<<".">>, DotDot}
    /\ LET r == Resolve(segs)
       IN  /\ SubSeq(r, 1, Len(r) - 1) \in OutDirs \cup {<<DotDot>>}
           /\ r \notin OutDirs

NewCommon ==
    [warnings |-> <<>>,     \* tt_warning! messages, in order
     opened |-> <<>>,       \* names opened through the input resolver
     closed |-> <<>>,       \* event_input_closed notifications
     written |-> <<>>,      \* files created below out_base: [path, data]
     loads |-> <<>>,        \* FontData::from_opentype calls: <<basename, face>>
     font_emits |-> <<>>,   \* FontData::emit calls: the fd_key of each
     layouts |-> 0]         \* handle_end_canvas runs

Warn(c, w) == [c EXCEPT !.warnings = Append(@, w)]
Opened(c, name) == [c EXCEPT !.opened = Append(@, name)]
Closed(c, name) == [c EXCEPT !.closed = Append(@, name)]
Written(c, segs, data) == [c EXCEPT !.written = Append(@, [path |-> segs, data |-> data])]

Ret(s, c, r) == [s |-> s, c |-> c, r |-> r]

-----------------------------------------------------------------------------
(* The font-data collaborator (font.rs). *)

\* FontData::from_opentype(basename, contents, face_index)
from_opentype_ok(contents, face_index) ==
    contents.kind = "font" /\ face_index < contents.faces

from_opentype(basename, contents, face_index) ==
    [basename |-> basename, face |-> face_index, alts |-> <<>>]

NoMetrics == [some |-> FALSE, lsb |-> 0, advance |-> 0, ascent |-> 0, descent |-> 0]
Metrics(lsb, advance, ascent, descent) ==
    [some |-> TRUE, lsb |-> lsb, advance |-> advance, ascent |-> ascent, descent |-> descent]

\* FontData::lookup_metrics(glyph, size): glyph 2 has no metrics
lookup_metrics(fd, glyph, size) ==
    CASE glyph = 1 -> Metrics(2, 10, 15, -3)
      [] glyph = 3 -> Metrics(1, 4, 5, -2)
      [] glyph = 4 -> Metrics(0, 6, 20, -8)
      [] OTHER -> NoMetrics

\* FontData::lookup_mapping(glyph): glyph 3 has no reverse mapping
lookup_mapping(fd, glyph) ==
    CASE glyph = 1 -> [some |-> TRUE, kind |-> "Direct", ch |-> "x"]
      [] glyph = 2 -> [some |-> TRUE, kind |-> "Direct", ch |-> "y"]
      [] glyph = 4 -> [some |-> TRUE, kind |-> "MathGrowingVariant", ch |-> "S"]
      [] OTHER -> [some |-> FALSE, kind |-> "", ch |-> ""]

\* FontData::request_alternative(glyph, ch): the alternate face the glyph got,
\* allocated at the first request
request_alternative(fd, glyph, ch) ==
    LET alts == IF \E i \in 1..Len(fd.alts) : fd.alts[i] = glyph
                THEN fd.alts ELSE Append(fd.alts, glyph)
        idx == Min({i \in 1..Len(alts) : alts[i] = glyph}) - 1
    IN  [fd |-> [fd EXCEPT !.alts = alts], usv |-> ch, alternate_map_index |-> idx]

-----------------------------------------------------------------------------
(* InitializationState *)

InitializationState_default ==
    [templates |-> EmptyMap,
     next_template_path |-> <<>>,
     next_output_path |-> IndexHtml,
     fonts |-> EmptyMap,
     main_body_font_size |-> 0,
     font_data_keys |-> EmptyMap,
     font_data |-> EmptyMap,
     variables |-> EmptyMap]

FontInfo(basename, fd_key, size, face_index) ==
    [role |-> "MainBody", rel_url |-> basename, fd_key |-> fd_key,
     size |-> size, face_index |-> face_index]

\* the file the loop over ["", ".otf"] opens: 1 for name, 2 for name.otf, 0 for none
font_ext_found(name) ==
    IF input_open_name(name) THEN 1
    ELSE IF input_open_name(name \o OTF) THEN 2
    ELSE 0

\* a dedup that never finds the pair: every definition gets the next index
fd_key_entry_fresh(font_data_keys, key) == Cardinality(DOMAIN font_data_keys)

\* the fd_key given to (name, face_index): the entry's, or the next dense index
fd_key_entry(font_data_keys, key) ==
    IF key \in DOMAIN font_data_keys
    THEN font_data_keys[key]
    ELSE Cardinality(DOMAIN font_data_keys)

\* the handler past its early return: the font file is opened, read and copied,
\* its font data loaded when the (name, face_index) pair is new, the font registered
define_new_font(self, name, font_num, size, face_index, c) ==
    LET found == font_ext_found(name) IN
    IF found = 0
    THEN Ret(self, c, "err")
    ELSE
    LET texpath == IF found = 1 THEN name ELSE name \o OTF
        contents == InputFiles[texpath]
        c1 == Closed(Opened(c, texpath), texpath)
        basename == Last(Split(texpath, "/"))
    IN
    IF ~create_ok(<<basename>>)
    THEN Ret(self, c1, "err")
    ELSE
    LET c2 == Written(c1, <<basename>>, contents)
        key == <<texpath, face_index>>
        next_id == Cardinality(DOMAIN self.font_data_keys)
        fd_key == fd_key_entry(self.font_data_keys, key)
        keys1 == MapPut(self.font_data_keys, key, fd_key)
        s1 == [self EXCEPT !.font_data_keys = keys1]
        c3 == [c2 EXCEPT !.loads = Append(@, <<basename, face_index>>)]
    IN
    IF fd_key = next_id /\ ~from_opentype_ok(contents, face_index)
    THEN Ret(s1, c3, "err")
    ELSE
    LET s2 == IF fd_key = next_id
              THEN [s1 EXCEPT !.font_data =
                        MapPut(@, fd_key, from_opentype(basename, contents, face_index))]
              ELSE s1
        c4 == IF fd_key = next_id THEN c3 ELSE c2
        s3 == [s2 EXCEPT !.main_body_font_size = size,
                         !.fonts = MapPut(@, font_num,
                                          FontInfo(basename, fd_key, size, face_index))]
    IN Ret(s3, c4, "ok")

\* a handler without the early return: a second definition overrides the first
Init_handle_define_native_font_override(self, name, font_num, size, face_index, c) ==
    define_new_font(self, name, font_num, size, face_index, c)

Init_handle_define_native_font(self, name, font_num, size, face_index, c) ==
    IF font_num \in DOMAIN self.fonts
    THEN Ret(self, c, "ok")
    ELSE define_new_font(self, name, font_num, size, face_index, c)

Init_handle_add_template(self, texpath, c) ==
    IF ~input_open_name(texpath)
    THEN Ret(self, c, "err")
    ELSE Ret([self EXCEPT !.templates = MapPut(@, texpath, InputFiles[texpath])],
             Closed(Opened(c, texpath), texpath), "ok")

Init_handle_set_template_variable(self, remainder, c) ==
    LET sp == split_once(remainder, " ") IN
    IF sp.some
    THEN Ret([self EXCEPT !.variables = MapPut(@, sp.a, sp.b)], c, "ok")
    ELSE Ret(self, Warn(c, "malformatted setTemplateVariable"), "ok")

Init_handle_special(self, contents, c) ==
    CASE contents.cmd = "tdux:addTemplate " ->
            Init_handle_add_template(self, contents.arg, c)
      [] contents.cmd = "tdux:setTemplate " ->
            Ret([self EXCEPT !.next_template_path = contents.arg], c, "ok")
      [] contents.cmd = "tdux:setOutputPath " ->
            Ret([self EXCEPT !.next_output_path = contents.arg], c, "ok")
      [] contents.cmd = "tdux:setTemplateVariable " ->
            Init_handle_set_template_variable(self, contents.arg, c)
      [] contents.cmd = "tdux:provideFile " ->
            Ret(self, Warn(c, "too-soon provideFile"), "ok")
      [] OTHER -> Ret(self, c, "ok")

\* the templates compile (tera.add_raw_templates)
templates_compile(templates) ==
    \A t \in DOMAIN templates : templates[t].kind = "tpl"

\* a quotient that takes the size of a ten-unit body font
RemsPerTex_of_ten(main_body_font_size) == [num |-> 1, den |-> 10]

\* rems_per_tex = 1.0 / main_body_font_size, kept as the exact quotient
RemsPerTex(main_body_font_size) == [num |-> 1, den |-> main_body_font_size]

initialization_finished_ok(self, tempdir_ok) ==
    tempdir_ok /\ templates_compile(self.templates)

initialization_finished(self) ==
    [tera |-> self.templates,
     context |-> self.variables,
     fonts |-> self.fonts,
     rems_per_tex |-> RemsPerTex(self.main_body_font_size),
     font_data |-> self.font_data,
     next_template_path |-> self.next_template_path,
     next_output_path |-> self.next_output_path,
     current_content |-> <<>>,
     current_canvas |-> [some |-> FALSE],
     content_finished |-> FALSE,
     content_finished_warning_issued |-> FALSE]

-----------------------------------------------------------------------------
(* State *)

Invalid == [tag |-> "Invalid"]
Initializing(s) == [tag |-> "Initializing", s |-> s]
Emitting(s) == [tag |-> "Emitting", s |-> s]

\* a version that never swaps the work value back into self
ensure_initialized_no_swap(self, tempdir_ok) ==
    IF self.tag = "Initializing" /\ ~initialization_finished_ok(self.s, tempdir_ok)
    THEN [st |-> Invalid, r |-> "err"]
    ELSE [st |-> Invalid, r |-> "ok"]

\* a version that starts an already Emitting state over with an empty buffer
ensure_initialized_restart(self, tempdir_ok) ==
    CASE self.tag = "Initializing" ->
            IF initialization_finished_ok(self.s, tempdir_ok)
            THEN [st |-> Emitting(initialization_finished(self.s)), r |-> "ok"]
            ELSE [st |-> Invalid, r |-> "err"]
      [] self.tag = "Emitting" ->
            [st |-> Emitting([self.s EXCEPT !.current_content = <<>>]), r |-> "ok"]
      [] OTHER -> [st |-> self, r |-> "ok"]

\* State::ensure_initialized: [st |-> the state left in self, r |-> ok / err]
ensure_initialized(self, tempdir_ok) ==
    LET work == self IN    \* std::mem::replace(self, State::Invalid)
    IF work.tag = "Initializing"
    THEN IF initialization_finished_ok(work.s, tempdir_ok)
         THEN [st |-> Emitting(initialization_finished(work.s)), r |-> "ok"]
         ELSE [st |-> Invalid, r |-> "err"]      \* `?` returns before the swap
    ELSE [st |-> work, r |-> "ok"]

-----------------------------------------------------------------------------
(* EmittingState: content *)

Ch(ch) == [k |-> "ch", c |-> ch]

push(content, ch) == Append(content, Ch(ch))

push_str(content, str) == content \o [i \in 1..Len(str) |-> Ch(str[i])]

\* a test that never finds a '>' at the end
ends_with_gt_never(content) == FALSE

\* current_content.ends_with('>'): every element written by the canvas layout
\* ends with '>'
ends_with_gt(content) ==
    /\ Len(content) > 0
    /\ LET a == Last(content) IN a.k # "ch" \/ a.c = ">"

PostFinish == "dropping post-finish content"

\* a warning at every dropped event
warn_finished_content_every_time(self, c) ==
    [s |-> [self EXCEPT !.content_finished_warning_issued = TRUE],
     c |-> Warn(c, PostFinish)]

warn_finished_content(self, c) ==
    IF ~self.content_finished_warning_issued
    THEN [s |-> [self EXCEPT !.content_finished_warning_issued = TRUE],
          c |-> Warn(c, PostFinish)]
    ELSE [s |-> self, c |-> c]

\* a canvas whose origin is the page origin
CanvasState_new_at_page_origin(kind, x0, y0) ==
    [some |-> TRUE, kind |-> kind, depth |-> 1, x0 |-> 0, y0 |-> 0, glyphs |-> <<>>]

CanvasState_new(kind, x0, y0) ==
    [some |-> TRUE, kind |-> kind, depth |-> 1, x0 |-> x0, y0 |-> y0, glyphs |-> <<>>]

GlyphInfo(dx, dy, font_num, glyph) ==
    [dx |-> dx, dy |-> dy, font_num |-> font_num, glyph |-> glyph]

\* the glyphs of a run at their page positions
run_glyphs_absolute(canvas, font_num, glyphs, xs, ys) ==
    [i \in 1..Len(glyphs) |-> GlyphInfo(xs[i], ys[i], font_num, glyphs[i])]

\* the glyphs of a run, relative to the canvas origin
run_glyphs(canvas, font_num, glyphs, xs, ys) ==
    [i \in 1..Len(glyphs) |->
        GlyphInfo(xs[i] - canvas.x0, ys[i] - canvas.y0, font_num, glyphs[i])]

Emit_handle_text_and_glyphs(self, font_num, text, glyphs, xs, ys, c) ==
    IF self.content_finished
    THEN LET w == warn_finished_content(self, c) IN Ret(w.s, w.c, "ok")
    ELSE IF self.current_canvas.some
    THEN Ret([self EXCEPT !.current_canvas.glyphs =
                  @ \o run_glyphs(self.current_canvas, font_num, glyphs, xs, ys)],
             c, "ok")
    ELSE LET sp == IF self.current_content # <<>> /\ ~ends_with_gt(self.current_content)
                   THEN push(self.current_content, " ")
                   ELSE self.current_content
         IN  Ret([self EXCEPT !.current_content = push_str(sp, text)], c, "ok")

Emit_handle_glyph_run(self, font_num, glyphs, xs, ys, c) ==
    IF self.content_finished
    THEN LET w == warn_finished_content(self, c) IN Ret(w.s, w.c, "ok")
    ELSE IF self.current_canvas.some
    THEN Ret([self EXCEPT !.current_canvas.glyphs =
                  @ \o run_glyphs(self.current_canvas, font_num, glyphs, xs, ys)],
             c, "ok")
    ELSE Ret(self, Warn(c, "TODO HANDLE glyph_run OUTSIDE OF CANVAS"), "ok")

-----------------------------------------------------------------------------
(* EmittingState: output paths and file finalization *)

\* Path::new(piece).is_absolute() || .has_root(), on Unix
has_root(piece) == Len(piece) > 0 /\ piece[1] = "/"

\* a loop that pushes every non-empty piece
push_pieces_unchecked(pieces, out_path) ==
    [ok |-> TRUE, path |-> out_path \o SelectSeq(pieces, LAMBDA piece : piece # <<>>)]

\* a loop that takes a path beginning with '/' for an absolute one
push_pieces_leading_slash_fatal(pieces, out_path) ==
    IF Len(pieces) > 1 /\ Head(pieces) = <<>>
    THEN [ok |-> FALSE, path |-> out_path]
    ELSE IF \E i \in 1..Len(pieces) : pieces[i] = DotDot
    THEN [ok |-> FALSE, path |-> out_path]
    ELSE [ok |-> TRUE, path |-> out_path \o SelectSeq(pieces, LAMBDA piece : piece # <<>>)]

\* the loop `for piece in path.split('/')` that finish_file, handle_provide_file,
\* emit_copied_file and emit_font_css share: the pieces pushed on out_base, or
\* the bail! at a `..` or rooted piece
RECURSIVE push_pieces(_, _)
push_pieces(pieces, out_path) ==
    IF pieces = <<>> THEN [ok |-> TRUE, path |-> out_path]
    ELSE LET piece == Head(pieces) IN
         IF piece = <<>> THEN push_pieces(Tail(pieces), out_path)
         ELSE IF piece = DotDot THEN [ok |-> FALSE, path |-> out_path]
         ELSE IF has_root(piece) THEN [ok |-> FALSE, path |-> out_path]
         ELSE push_pieces(Tail(pieces), Append(out_path, piece))

out_path_of(path) == push_pieces(Split(path, "/"), <<>>)

TduxContent == <<"tduxContent">>
TduxRelTop == <<"tduxRelTop">>
TduxFontFaces == <<"tduxFontFaces">>
TduxMainBodyFontFamily == <<"tduxMainBodyFontFamily">>

\* a prefix with one "../" per level
rel_top_of_per_level(n_levels) ==
    IF n_levels < 2 THEN <<>>
    ELSE [i \in 1..(3 * n_levels) |-> IF i % 3 = 0 THEN "/" ELSE "."]

\* a loop that pushes "../" once when it runs at all
rel_top_loop_once(rel_top, k) ==
    IF k <= 0 THEN rel_top ELSE rel_top \o <<".", ".", "/">>

\* the string built by `for _ in 0..(n_levels - 1) { rel_top.push_str("../") }`
RECURSIVE rel_top_loop(_, _)
rel_top_loop(rel_top, k) ==
    IF k <= 0 THEN rel_top ELSE rel_top_loop(rel_top \o <<".", ".", "/">>, k - 1)

rel_top_of(n_levels) ==
    IF n_levels < 2 THEN <<>> ELSE rel_top_loop(<<>>, n_levels - 1)

\* a finalize that also drops the canvas
finish_file_taking_canvas(self, c) ==
    LET out == out_path_of(self.next_output_path)
        tpl == self.next_template_path
        s1 == [self EXCEPT !.context =
                  MapPut(MapPut(@, TduxContent, self.current_content),
                         TduxRelTop, rel_top_of(Len(out.path)))]
    IN
    IF ~out.ok THEN Ret(self, c, "err")
    ELSE IF ~input_open_name(tpl) THEN Ret(s1, c, "err")
    ELSE IF InputFiles[tpl].kind # "tpl" \/ ~create_ok(out.path)
    THEN Ret(s1, Opened(c, tpl), "err")
    ELSE Ret([s1 EXCEPT !.current_content = <<>>, !.current_canvas = [some |-> FALSE]],
             Written(Closed(Opened(c, tpl), tpl), out.path,
                     [template |-> tpl, context |-> s1.context]),
             "ok")

finish_file(self, c) ==
    LET out == out_path_of(self.next_output_path) IN
    IF ~out.ok THEN Ret(self, c, "err")
    ELSE
    LET n_levels == Len(out.path)
        s1 == [self EXCEPT !.context =
                  MapPut(MapPut(@, TduxContent, self.current_content),
                         TduxRelTop, rel_top_of(n_levels))]
        tpl == self.next_template_path
    IN
    IF ~input_open_name(tpl) THEN Ret(s1, c, "err")
    ELSE IF InputFiles[tpl].kind = "font"               \* read_to_string: not UTF-8
    THEN Ret(s1, Opened(c, tpl), "err")
    ELSE
    LET c1 == Closed(Opened(c, tpl), tpl) IN
    IF InputFiles[tpl].kind # "tpl"                     \* render_str fails
    THEN Ret(s1, c1, "err")
    ELSE IF ~create_ok(out.path)
    THEN Ret(s1, c1, "err")
    ELSE Ret([s1 EXCEPT !.current_content = <<>>],
             Written(c1, out.path, [template |-> tpl, context |-> s1.context]),
             "ok")

Emit_handle_set_template_variable(self, remainder, c) ==
    LET sp == split_once(remainder, " ") IN
    IF sp.some
    THEN Ret([self EXCEPT !.context = MapPut(@, sp.a, sp.b)], c, "ok")
    ELSE Ret(self, Warn(c, "malformatted setTemplateVariable"), "ok")

\* a provideFile that is dropped
handle_provide_file_dropped(self, remainder, c) == Ret(self, c, "ok")

handle_provide_file(self, remainder, c) ==
    LET sp == split_once(remainder, " ") IN
    IF ~sp.some
    THEN Ret(self, Warn(c, "malformatted provideFile"), "ok")
    ELSE
    LET src_tex_path == sp.a
        dest_path == sp.b
    IN
    IF ~input_open_name(src_tex_path) THEN Ret(self, c, "err")
    ELSE
    LET c1 == Opened(c, src_tex_path)
        out == out_path_of(dest_path)
    IN
    IF ~out.ok THEN Ret(self, c1, "err")
    ELSE IF ~create_ok(out.path) THEN Ret(self, c1, "err")
    ELSE Ret(self,
             Closed(Written(c1, out.path, InputFiles[src_tex_path]), src_tex_path),
             "ok")

Family(fd_key) == <<"tdux", fd_key>>
FamilyAlt(fd_key, alt) == <<"tdux", fd_key, "vg", alt>>

\* the keys a HashMap iteration can end with
LastOf(m) == IF DOMAIN m = {} THEN {0} ELSE DOMAIN m

RECURSIVE SetToSeq(_)
SetToSeq(S) ==
    IF S = {} THEN <<>> ELSE LET x == Min(S) IN <<x>> \o SetToSeq(S \ {x})

\* a draining of the font data that does not seal the content
content_finished_unsealed(self, pick, c) ==
    Ret([self EXCEPT !.current_content = <<>>, !.font_data = EmptyMap],
        [c EXCEPT !.font_emits = @ \o SetToSeq(DOMAIN self.font_data)], "ok")

\* content_finished; `pick` is the font that `self.fonts.values()` yields last
content_finished(self, pick, c) ==
    LET c1 == IF self.current_content # <<>>
              THEN Warn(c, "un-emitted content at end of HTML output") ELSE c
        keys == DOMAIN self.font_data
        faces == {[family |-> Family(k), data |-> self.font_data[k]] : k \in keys}
        c2 == [c1 EXCEPT !.font_emits = @ \o SetToSeq(keys)]
        ctx1 == MapPut(self.context, TduxFontFaces, faces)
        ctx2 == IF pick \in DOMAIN self.fonts
                THEN MapPut(ctx1, TduxMainBodyFontFamily, Family(self.fonts[pick].fd_key))
                ELSE ctx1
    IN  Ret([self EXCEPT !.current_content = <<>>,
                         !.font_data = EmptyMap,
                         !.context = ctx2,
                         !.content_finished = TRUE],
            c2, "ok")

-----------------------------------------------------------------------------
(* EmittingState: canvas layout *)

Math == <<"m", "a", "t", "h">>
DMath == <<"d", "m", "a", "t", "h">>
Em == <<"e", "m">>

\* v as f32 * self.rems_per_tex, kept as the exact quotient
Rems(v, rems_per_tex) == [num |-> v * rems_per_tex.num, den |-> rems_per_tex.den]

NoBounds == [st |-> "ok", first |-> TRUE, x_min |-> 0, x_max |-> 0, y_min |-> 0, y_max |-> 0]

IMin(a, b) == IF a < b THEN a ELSE b
IMax(a, b) == IF a > b THEN a ELSE b

\* a pass that unites a glyph without metrics in as an empty box at its origin
bounds_step_unconditional(acc, gi, fi, gm) ==
    IF acc.first
    THEN [acc EXCEPT !.first = FALSE,
                     !.x_min = gi.dx - gm.lsb, !.x_max = gi.dx + gm.advance,
                     !.y_min = gi.dy - gm.ascent, !.y_max = gi.dy - gm.descent]
    ELSE [acc EXCEPT !.x_min = IMin(@, gi.dx - gm.lsb), !.x_max = IMax(@, gi.dx + gm.advance),
                     !.y_min = IMin(@, gi.dy - gm.ascent), !.y_max = IMax(@, gi.dy - gm.descent)]

\* one pass of the first loop: the bounds with the glyph's box united in
bounds_step(acc, gi, fi, gm) ==
    IF ~gm.some THEN acc
    ELSE LET xmin == gi.dx - gm.lsb
             xmax == gi.dx + gm.advance
             ymin == gi.dy - gm.ascent
             ymax == gi.dy - gm.descent
         IN  IF acc.first
             THEN [acc EXCEPT !.first = FALSE, !.x_min = xmin, !.x_max = xmax,
                              !.y_min = ymin, !.y_max = ymax]
             ELSE [acc EXCEPT !.x_min = IMin(@, xmin), !.x_max = IMax(@, xmax),
                              !.y_min = IMin(@, ymin), !.y_max = IMax(@, ymax)]

\* first pass: st is "err" at an undeclared font, "panic" at the unwrap of a
\* missing font-data entry
RECURSIVE bounds_pass(_, _, _, _)
bounds_pass(glyphs, fonts, font_data, acc) ==
    IF glyphs = <<>> THEN acc
    ELSE LET gi == Head(glyphs) IN
         IF gi.font_num \notin DOMAIN fonts THEN [acc EXCEPT !.st = "err"]
         ELSE LET fi == fonts[gi.font_num] IN
              IF fi.fd_key \notin DOMAIN font_data THEN [acc EXCEPT !.st = "panic"]
              ELSE bounds_pass(Tail(glyphs), fonts, font_data,
                               bounds_step(acc, gi, fi,
                                   lookup_metrics(font_data[fi.fd_key], gi.glyph, fi.size)))

\* the positioned element written for one glyph
glyph_element(gi, fi, ch, font_fam, y_min_tex, rems_per_tex) ==
    [k |-> "ci",
     top |-> [num |-> (-y_min_tex + gi.dy) * rems_per_tex.num,
              baseline_size |-> fi.size * rems_per_tex.num,
              den |-> rems_per_tex.den],
     left |-> Rems(gi.dx, rems_per_tex),
     font_size |-> Rems(fi.size, rems_per_tex),
     font_family |-> font_fam,
     ch |-> ch]

\* a second pass that writes an element for every glyph, mapped or not
render_pass_unmapped(glyphs, fonts, y_min_tex, rems_per_tex, acc) ==
    [acc EXCEPT !.inner = @ \o
        [i \in 1..Len(glyphs) |->
            LET fi == fonts[glyphs[i].font_num] IN
            glyph_element(glyphs[i], fi,
                          lookup_mapping(acc.font_data[fi.fd_key], glyphs[i].glyph).ch,
                          Family(fi.fd_key), y_min_tex, rems_per_tex)]]

\* second pass over canvas.glyphs.drain(..): acc is [inner, font_data, c]
RECURSIVE render_pass(_, _, _, _, _)
render_pass(glyphs, fonts, y_min_tex, rems_per_tex, acc) ==
    IF glyphs = <<>> THEN acc
    ELSE
    LET gi == Head(glyphs)
        fi == fonts[gi.font_num]
        fd == acc.font_data[fi.fd_key]
        mc == lookup_mapping(fd, gi.glyph)
    IN
    IF ~mc.some
    THEN render_pass(Tail(glyphs), fonts, y_min_tex, rems_per_tex,
                     [acc EXCEPT !.c = Warn(@, "unable to reverse-map glyph")])
    ELSE
    LET need_alt == mc.kind # "Direct"
        map == request_alternative(fd, gi.glyph, mc.ch)
        ch == IF need_alt THEN map.usv ELSE mc.ch
        font_fam == IF need_alt
                    THEN FamilyAlt(fi.fd_key, map.alternate_map_index)
                    ELSE Family(fi.fd_key)
        fd1 == IF need_alt THEN map.fd ELSE fd
    IN  render_pass(Tail(glyphs), fonts, y_min_tex, rems_per_tex,
                    [acc EXCEPT !.inner = Append(@, glyph_element(gi, fi, ch, font_fam,
                                                                 y_min_tex, rems_per_tex)),
                                !.font_data = MapPut(@, fi.fd_key, fd1)])

\* an opening tag that is the inline one whatever the kind
canvas_wrapper_always_inline(inline, b, rems_per_tex) ==
    [k |-> "open", element |-> "span", class |-> "canvas-inline",
     width |-> Rems(b.x_max - b.x_min, rems_per_tex),
     height |-> Rems(b.y_max - b.y_min, rems_per_tex),
     padding_left |-> Rems(-b.x_min, rems_per_tex),
     valign |-> <<Rems(-b.y_max, rems_per_tex)>>]

\* the opening tag of the wrapper
canvas_wrapper(inline, b, rems_per_tex) ==
    [k |-> "open",
     element |-> IF inline THEN "span" ELSE "div",
     class |-> IF inline THEN "canvas-inline" ELSE "canvas-block",
     width |-> Rems(b.x_max - b.x_min, rems_per_tex),
     height |-> Rems(b.y_max - b.y_min, rems_per_tex),
     padding_left |-> Rems(-b.x_min, rems_per_tex),
     valign |-> IF inline THEN <<Rems(-b.y_max, rems_per_tex)>> ELSE <<>>]

handle_end_canvas(self, c) ==
    LET canvas == self.current_canvas                    \* current_canvas.take()
        content1 == IF self.current_content # <<>> /\ ~ends_with_gt(self.current_content)
                    THEN push(self.current_content, " ")
                    ELSE self.current_content
        s1 == [self EXCEPT !.current_canvas = [some |-> FALSE], !.current_content = content1]
        c1 == [c EXCEPT !.layouts = @ + 1]
        inline == canvas.kind = Math
        b == bounds_pass(canvas.glyphs, self.fonts, self.font_data, NoBounds)
    IN
    IF b.st # "ok" THEN Ret(s1, c1, b.st)
    ELSE
    LET r == render_pass(canvas.glyphs, self.fonts, b.y_min, self.rems_per_tex,
                         [inner |-> <<>>, font_data |-> self.font_data, c |-> c1])
        element == IF inline THEN "span" ELSE "div"
    IN  Ret([s1 EXCEPT !.font_data = r.font_data,
                       !.current_content =
                           Append(Append(content1, canvas_wrapper(inline, b, self.rems_per_tex))
                                  \o r.inner,
                                  [k |-> "close", element |-> element])],
            r.c, "ok")

-----------------------------------------------------------------------------
(* EmittingState::handle_special *)

\* a nested open that is not counted
canvas_opened_flat(canvas) == canvas

\* the canvas with one more nested open
canvas_opened(canvas) == [canvas EXCEPT !.depth = @ + 1]

\* a close that counts twice
canvas_closed_twice(canvas) == [canvas EXCEPT !.depth = @ - 2]

\* the canvas with one open closed
canvas_closed(canvas) == [canvas EXCEPT !.depth = @ - 1]

Emit_handle_special(self, x, y, contents, pick, c) ==
    CASE contents.cmd = "tdux:as " ->
            IF self.content_finished
            THEN LET w == warn_finished_content(self, c) IN Ret(w.s, w.c, "ok")
            ELSE Ret([self EXCEPT !.current_content =
                          push(push_str(push(@, "<"), contents.arg), ">")], c, "ok")
      [] contents.cmd = "tdux:ae " ->
            IF self.content_finished
            THEN LET w == warn_finished_content(self, c) IN Ret(w.s, w.c, "ok")
            ELSE Ret([self EXCEPT !.current_content =
                          push(push_str(push(push(@, "<"), "/"), contents.arg), ">")],
                     c, "ok")
      [] contents.cmd = "tdux:cs " ->
            IF self.content_finished
            THEN LET w == warn_finished_content(self, c) IN Ret(w.s, w.c, "ok")
            ELSE IF self.current_canvas.some
            THEN Ret([self EXCEPT !.current_canvas = canvas_opened(@)], c, "ok")
            ELSE Ret([self EXCEPT !.current_canvas = CanvasState_new(contents.arg, x, y)],
                     c, "ok")
      [] contents.cmd = "tdux:ce " ->
            IF self.content_finished
            THEN LET w == warn_finished_content(self, c) IN Ret(w.s, w.c, "ok")
            ELSE IF self.current_canvas.some
            THEN LET s1 == [self EXCEPT !.current_canvas = canvas_closed(@)] IN
                 IF s1.current_canvas.depth = 0
                 THEN handle_end_canvas(s1, c)
                 ELSE Ret(s1, c, "ok")
            ELSE Ret(self, Warn(c, "ignoring unpaired tdux:c[anvas]e[nd] special"), "ok")
      [] contents.cmd = "tdux:emit" /\ contents.arg = <<>> ->
            finish_file(self, c)
      [] contents.cmd = "tdux:setTemplate " ->
            Ret([self EXCEPT !.next_template_path = contents.arg], c, "ok")
      [] contents.cmd = "tdux:setOutputPath " ->
            Ret([self EXCEPT !.next_output_path = contents.arg], c, "ok")
      [] contents.cmd = "tdux:setTemplateVariable " ->
            Emit_handle_set_template_variable(self, contents.arg, c)
      [] contents.cmd = "tdux:provideFile " ->
            handle_provide_file(self, contents.arg, c)
      [] contents.cmd = "tdux:contentFinished" /\ contents.arg = <<>> ->
            content_finished(self, pick, c)
      [] OTHER -> Ret(self, c, "ok")

-----------------------------------------------------------------------------
(* EngineState: the XdvEvents handlers *)

\* a dispatcher that does not end the initialization at a provideFile
starts_with_provideFile_never(contents) == FALSE

starts_with_provideFile(contents) ==
    contents.cmd \in {"tdux:provideFile ", "tdux:provideFile"}

\* a dispatcher that does not end the initialization at an emit
is_emit_never(contents) == FALSE

is_emit(contents) == contents.cmd = "tdux:emit" /\ contents.arg = <<>>

RetState(st, c, r) == [st |-> st, c |-> c, r |-> r]

\* the handler of the state's variant, or the panic of the Invalid arm
dispatch_special(st, contents, pick, c) ==
    CASE st.tag = "Invalid" -> RetState(st, c, "panic")
      [] st.tag = "Initializing" ->
            LET h == Init_handle_special(st.s, contents, c)
            IN  RetState(Initializing(h.s), h.c, h.r)
      [] st.tag = "Emitting" ->
            LET h == Emit_handle_special(st.s, contents.x, contents.y, contents, pick, c)
            IN  RetState(Emitting(h.s), h.c, h.r)

EngineState_handle_special(st, contents, tempdir_ok, pick, c) ==
    IF ~contents.utf8 THEN RetState(st, c, "err")
    ELSE
    LET e == IF is_emit(contents) \/ starts_with_provideFile(contents)
             THEN ensure_initialized(st, tempdir_ok)
             ELSE [st |-> st, r |-> "ok"]
    IN  IF e.r # "ok" THEN RetState(e.st, c, e.r)
        ELSE dispatch_special(e.st, contents, pick, c)

EngineState_handle_text_and_glyphs(st, ev, tempdir_ok, c) ==
    LET e == ensure_initialized(st, tempdir_ok) IN
    IF e.r # "ok" THEN RetState(e.st, c, e.r)
    ELSE CASE e.st.tag = "Invalid" -> RetState(e.st, c, "panic")
           [] e.st.tag = "Initializing" -> RetState(e.st, c, "panic")   \* unreachable!()
           [] e.st.tag = "Emitting" ->
                LET h == Emit_handle_text_and_glyphs(e.st.s, ev.font_num, ev.text,
                                                     ev.glyphs, ev.xs, ev.ys, c)
                IN  RetState(Emitting(h.s), h.c, h.r)

EngineState_handle_glyph_run(st, ev, tempdir_ok, c) ==
    LET e == ensure_initialized(st, tempdir_ok) IN
    IF e.r # "ok" THEN RetState(e.st, c, e.r)
    ELSE CASE e.st.tag = "Invalid" -> RetState(e.st, c, "panic")
           [] e.st.tag = "Initializing" -> RetState(e.st, c, "panic")   \* unreachable!()
           [] e.st.tag = "Emitting" ->
                LET h == Emit_handle_glyph_run(e.st.s, ev.font_num, ev.glyphs, ev.xs, ev.ys, c)
                IN  RetState(Emitting(h.s), h.c, h.r)

\* a handler that registers the font in the Emitting state too
EngineState_handle_define_native_font_late(st, ev, c) ==
    CASE st.tag = "Invalid" -> RetState(st, c, "panic")
      [] st.tag = "Initializing" ->
            LET h == Init_handle_define_native_font(st.s, ev.name, ev.font_num, ev.size,
                                                    ev.face_index, c)
            IN  RetState(Initializing(h.s), h.c, h.r)
      [] OTHER ->
            RetState(Emitting([st.s EXCEPT !.fonts =
                        MapPut(@, ev.font_num,
                               [face_index |-> ev.face_index, size |-> ev.size, fd_key |-> 0,
                                role |-> "MainBody", rel_url |-> ev.name])]),
                     c, "ok")

EngineState_handle_define_native_font(st, ev, c) ==
    CASE st.tag = "Invalid" -> RetState(st, c, "panic")
      [] st.tag = "Initializing" ->
            LET h == Init_handle_define_native_font(st.s, ev.name, ev.font_num, ev.size,
                                                    ev.face_index, c)
            IN  RetState(Initializing(h.s), h.c, h.r)
      [] OTHER -> RetState(st, c, "ok")

EngineState_handle_header(st, filetype, c) ==
    IF filetype # "Spx" THEN RetState(st, c, "err") ELSE RetState(st, c, "ok")

\* an end of run that finalizes a file whenever the state is Emitting
EngineState_finished_unconditional(st, c) ==
    IF st.tag = "Emitting"
    THEN LET h == finish_file(st.s, c) IN RetState(Emitting(h.s), h.c, h.r)
    ELSE RetState(st, c, "ok")

EngineState_finished(st, c) ==
    IF st.tag = "Emitting" /\ st.s.current_content # <<>>
    THEN LET h == finish_file(st.s, c) IN RetState(Emitting(h.s), h.c, h.r)
    ELSE RetState(st, c, "ok")

-----------------------------------------------------------------------------
(* The run: XdvParser delivers events while no handler has failed, then       *)
(* process_to_filesystem calls finished.                                      *)

NoRegion == [opens |-> 0, closes |-> 0, base |-> 0]

\* cs / ce specials that reach a canvas, counted from the one that opened it
region_after(reg, st, contents, c) ==
    IF st.tag = "Emitting" /\ contents.utf8 /\ ~st.s.content_finished
    THEN CASE contents.cmd = "tdux:cs " /\ ~st.s.current_canvas.some ->
                  [opens |-> 1, closes |-> 0, base |-> c.layouts]
           [] contents.cmd = "tdux:cs " /\ st.s.current_canvas.some ->
                  [reg EXCEPT !.opens = @ + 1]
           [] contents.cmd = "tdux:ce " /\ st.s.current_canvas.some ->
                  [reg EXCEPT !.closes = @ + 1]
           [] OTHER -> reg
    ELSE reg

Running == result = "ok" /\ ~done

\* the fonts that the iteration of content_finished can end with
Picks(st, contents) ==
    IF st.tag = "Emitting" /\ contents.cmd = "tdux:contentFinished"
    THEN LastOf(st.s.fonts) ELSE {0}

Step(h, ev) ==
    /\ state' = h.st
    /\ common' = h.c
    /\ result' = h.r
    /\ last' = ev
    /\ nev' = nev + 1
    /\ hist' = IF hist.on THEN [hist EXCEPT !.evs = Append(@, ev)] ELSE hist
    /\ UNCHANGED <<done, path_in, assets, asset_out>>

Header(FileTypes, max) ==
    \E filetype \in FileTypes :
        /\ Running /\ nev < max
        /\ Step(EngineState_handle_header(state, filetype, common),
                [ev |-> "header", e |-> [filetype |-> filetype]])
        /\ UNCHANGED <<region, seen>>

Special(Specials, TempdirOk, max) ==
    \E contents \in Specials, tempdir_ok \in TempdirOk :
      \E pick \in Picks(state, contents) :
        /\ Running /\ nev < max
        /\ Step(EngineState_handle_special(state, contents, tempdir_ok, pick, common),
                [ev |-> "special", e |-> contents])
        /\ region' = region_after(region, state, contents, common)
        /\ UNCHANGED seen

TextAndGlyphs(Texts, TempdirOk, max) ==
    \E ev \in Texts, tempdir_ok \in TempdirOk :
        /\ Running /\ nev < max
        /\ Step(EngineState_handle_text_and_glyphs(state, ev, tempdir_ok, common),
                [ev |-> "text_and_glyphs", e |-> ev])
        /\ UNCHANGED <<region, seen>>

GlyphRun(Runs, TempdirOk, max) ==
    \E ev \in Runs, tempdir_ok \in TempdirOk :
        /\ Running /\ nev < max
        /\ Step(EngineState_handle_glyph_run(state, ev, tempdir_ok, common),
                [ev |-> "glyph_run", e |-> ev])
        /\ UNCHANGED <<region, seen>>

DefineNativeFont(Defs, max) ==
    \E ev \in Defs :
        /\ Running /\ nev < max
        /\ Step(EngineState_handle_define_native_font(state, ev, common),
                [ev |-> "define_native_font", e |-> ev])
        /\ seen' = IF \E i \in 1..Len(seen) : seen[i].font_num = ev.font_num
                   THEN seen ELSE Append(seen, ev)
        /\ UNCHANGED region

Finished ==
    /\ Running
    /\ LET h == EngineState_finished(state, common)
       IN  /\ state' = h.st
           /\ common' = h.c
           /\ result' = h.r
    /\ done' = TRUE
    /\ last' = [ev |-> "finished", e |-> [filetype |-> ""]]
    /\ UNCHANGED <<region, seen, nev, path_in, hist, assets, asset_out>>

\* Assets::default; `consumed` is set when emit or into_serialize takes self
Assets_default == [paths |-> EmptyMap, consumed |-> FALSE]

\* EngineState::new, and an asset manager not in use
EngineNew ==
    /\ state = Initializing(InitializationState_default)
    /\ common = NewCommon
    /\ result = "ok"
    /\ done = FALSE
    /\ last = [ev |-> "none", e |-> [filetype |-> ""]]
    /\ seen = <<>>
    /\ region = NoRegion
    /\ nev = 0
    /\ assets = Assets_default
    /\ asset_out = [op |-> "none"]

NoHist == [on |-> FALSE, evs |-> <<>>]

EngineInit ==
    /\ path_in = <<>>
    /\ hist = NoHist
    /\ EngineNew

\* the same, in a run that records its events
HistInit ==
    /\ path_in = <<>>
    /\ hist = [on |-> TRUE, evs |-> <<>>]
    /\ EngineNew

-----------------------------------------------------------------------------
(* The Asset Manager (assets.rs) and its collaborators. *)

\* crate::specials::Special: the parsed form of a special
ProvideFile(spec) == [variant |-> "ProvideFile", spec |-> spec]
ProvideSpecial(spec) == [variant |-> "ProvideSpecial", spec |-> spec]
OtherSpecial == [variant |-> "Emit", spec |-> <<>>]

FontCssKind == <<"f", "o", "n", "t", "-", "c", "s", "s">>

\* AssetOrigin
Copy(src_path) == [kind |-> "Copy", src |-> src_path]
FontCss == [kind |-> "FontCss"]

\* a registration that keeps the entry a destination already has
copy_file_keep_first(self, src_path, dest_path) ==
    IF dest_path \in DOMAIN self.paths THEN self
    ELSE [self EXCEPT !.paths = MapPut(@, dest_path, Copy(src_path))]

copy_file(self, src_path, dest_path) ==
    [self EXCEPT !.paths = MapPut(@, dest_path, Copy(src_path))]

register_font_css(self, dest_path) ==
    [self EXCEPT !.paths = MapPut(@, dest_path, FontCss)]

\* Assets::try_handle_special: [s |-> self, c |-> common, r |-> the bool]
try_handle_special(self, special, c) ==
    LET sp == split_once(special.spec, " ") IN
    CASE special.variant = "ProvideFile" ->
            IF ~sp.some
            THEN Ret(self, Warn(c, "ignoring malformatted special"), FALSE)
            ELSE Ret(copy_file(self, sp.a, sp.b), c, TRUE)
      [] special.variant = "ProvideSpecial" ->
            IF ~sp.some
            THEN Ret(self, Warn(c, "ignoring malformatted special"), FALSE)
            ELSE IF sp.a = FontCssKind
            THEN Ret(register_font_css(self, sp.b), c, TRUE)
            ELSE Ret(self, Warn(c, "ignoring unsupported special"), FALSE)
      [] OTHER -> Ret(self, c, FALSE)

\* The font ensemble: the font files it will emit, by output path, and the
\* faces of its families.
NoFonts == [files |-> EmptyMap, families |-> EmptyMap]

OneFamily ==
    [files |-> (<<"f">> :> [source |-> <<"b">>, vglyphs |-> EmptyMap]),
     families |-> (<<"F">> :> [faces |-> ("Regular" :> <<"f">>)])]

Ensembles == {NoFonts, OneFamily}

\* FontEnsemble::emit: writes the font files, returns the CSS text that names
\* the faces
RECURSIVE write_font_files(_, _, _)
write_font_files(files, todo, c) ==
    IF todo = {} THEN [c |-> c, r |-> "ok"]
    ELSE LET d == CHOOSE x \in todo : TRUE IN
         IF ~create_ok(<<d>>) THEN [c |-> c, r |-> "err"]
         ELSE write_font_files(files, todo \ {d}, Written(c, <<d>>, files[d]))

FontEnsemble_emit(fonts, c) ==
    LET h == write_font_files(fonts.files, DOMAIN fonts.files, c)
    IN  [c |-> h.c, r |-> h.r, faces |-> [css |-> fonts.families]]

\* FontEnsemble::into_serialize: (the FontFile assets, the face data)
FontEnsemble_into_serialize(fonts) ==
    [assets |-> [d \in DOMAIN fonts.files |->
                    [kind |-> "FontFile", source |-> fonts.files[d].source,
                     vglyphs |-> fonts.files[d].vglyphs]],
     css_data |-> fonts.families]

\* a copy that pushes every piece of the destination
emit_copied_file_unchecked(src_tex_path, dest_path, c) ==
    IF ~input_open_name(src_tex_path) THEN [c |-> c, r |-> "err"]
    ELSE
    LET c1 == Opened(c, src_tex_path)
        out == push_pieces_unchecked(Split(dest_path, "/"), <<>>)
    IN
    IF ~create_ok(out.path) THEN [c |-> c1, r |-> "err"]
    ELSE [c |-> Closed(Written(c1, out.path, InputFiles[src_tex_path]), src_tex_path),
          r |-> "ok"]

emit_copied_file(src_tex_path, dest_path, c) ==
    IF ~input_open_name(src_tex_path) THEN [c |-> c, r |-> "err"]
    ELSE
    LET c1 == Opened(c, src_tex_path)
        out == out_path_of(dest_path)
    IN
    IF ~out.ok THEN [c |-> c1, r |-> "err"]
    ELSE IF ~create_ok(out.path) THEN [c |-> c1, r |-> "err"]
    ELSE [c |-> Closed(Written(c1, out.path, InputFiles[src_tex_path]), src_tex_path),
          r |-> "ok"]

\* a font CSS that is not written
emit_font_css_skipped(dest_path, faces, c) == [c |-> c, r |-> "ok"]

emit_font_css(dest_path, faces, c) ==
    LET out == out_path_of(dest_path) IN
    IF ~out.ok THEN [c |-> c, r |-> "err"]
    ELSE IF ~create_ok(out.path) THEN [c |-> c, r |-> "err"]
    ELSE [c |-> Written(c, out.path, faces), r |-> "ok"]

\* the orders in which HashMap::drain can yield the keys
Orders(m) ==
    LET n == Cardinality(DOMAIN m)
    IN  {o \in [1..n -> DOMAIN m] : \A d \in DOMAIN m : \E i \in 1..n : o[i] = d}

\* the loop of Assets::emit from the i-th drained entry on
RECURSIVE emit_loop(_, _, _, _, _)
emit_loop(paths, order, i, faces, c) ==
    IF i > Len(order) THEN [c |-> c, r |-> "ok"]
    ELSE LET dest_path == order[i]
             origin == paths[dest_path]
             h == IF origin.kind = "Copy"
                  THEN emit_copied_file(origin.src, dest_path, c)
                  ELSE emit_font_css(dest_path, faces, c)
         IN  IF h.r # "ok" THEN h
             ELSE emit_loop(paths, order, i + 1, faces, h.c)

\* Assets::emit
Assets_emit(self, fonts, order, c) ==
    LET f == FontEnsemble_emit(fonts, c) IN
    IF f.r # "ok" THEN [c |-> f.c, r |-> "err"]
    ELSE emit_loop(self.paths, order, 1, f.faces, f.c)

\* Assets::into_serialize: the entries of the ensemble, overwritten by the
\* registered destinations
Assets_into_serialize(self, fonts) ==
    LET fs == FontEnsemble_into_serialize(fonts) IN
    [d \in DOMAIN fs.assets \cup DOMAIN self.paths |->
        IF d \in DOMAIN self.paths
        THEN IF self.paths[d].kind = "Copy"
             THEN [kind |-> "Copy", v |-> self.paths[d].src]
             ELSE [kind |-> "FontCss", v |-> fs.css_data]
        ELSE fs.assets[d]]

\* The serialized form of a manifest entry under #[serde(tag = "kind")]: a map
\* whose first entry is the tag, followed by the entries of the variant's
\* content.  A newtype variant holding a string has no map to put the tag in
\* and fails to serialize.
Kind == <<"k", "i", "n", "d">>
Entry(key, val) == [key |-> key, val |-> val]
Str(v) == [t |-> "str", v |-> v]
Obj(v) == [t |-> "obj", v |-> v]

entries_of(m) ==
    LET RECURSIVE go(_)
        go(todo) == IF todo = {} THEN <<>>
                    ELSE LET k == CHOOSE x \in todo : TRUE
                         IN  <<Entry(k, Obj(m[k]))>> \o go(todo \ {k})
    IN  go(DOMAIN m)

serialize_origin(origin) ==
    CASE origin.kind = "Copy" -> [ok |-> FALSE, map |-> <<>>]
      [] origin.kind = "FontCss" ->
            [ok |-> TRUE, map |-> <<Entry(Kind, Str("FontCss"))>> \o entries_of(origin.v)]
      [] origin.kind = "FontFile" ->
            [ok |-> TRUE,
             map |-> <<Entry(Kind, Str("FontFile")),
                       Entry(<<"source">>, Obj(origin.source)),
                       Entry(<<"vglyphs">>, Obj(origin.vglyphs))>>]

\* serializing syntax::Assets: fails when an entry fails
serialize(manifest) ==
    IF \E d \in DOMAIN manifest : ~serialize_origin(manifest[d]).ok
    THEN [ok |-> FALSE, map |-> EmptyMap]
    ELSE [ok |-> TRUE, map |-> [d \in DOMAIN manifest |-> serialize_origin(manifest[d]).map]]

\* the map that the entries after the tag make
map_of(entries) ==
    LET keys == {entries[i].key : i \in 1..Len(entries)}
    IN  [k \in keys |-> entries[CHOOSE i \in 1..Len(entries) : entries[i].key = k].val.v]

deserialize_origin(entries) ==
    LET tag == entries[CHOOSE i \in 1..Len(entries) : entries[i].key = Kind].val.v
        rest == SelectSeq(entries, LAMBDA e : e.key # Kind)
    IN  IF tag = "FontCss"
        THEN [kind |-> "FontCss", v |-> map_of(rest)]
        ELSE [kind |-> "FontFile", source |-> map_of(rest)[<<"source">>],
              vglyphs |-> map_of(rest)[<<"vglyphs">>]]

\* deserializing syntax::Assets from what serialize produced
deserialize(ser) == [d \in DOMAIN ser.map |-> deserialize_origin(ser.map[d])]

\* try_handle_special on the run's asset manager
TryHandleSpecial(Specials, max) ==
    \E special \in Specials :
        /\ ~assets.consumed /\ nev < max
        /\ LET h == try_handle_special(assets, special, common)
           IN  /\ assets' = h.s
               /\ common' = h.c
               /\ asset_out' = [op |-> "try_handle_special", special |-> special,
                                handled |-> h.r, at |-> nev + 1]
        /\ nev' = nev + 1
        /\ UNCHANGED <<state, result, done, last, seen, region, path_in, hist>>

\* Assets::emit at the end of the run
AssetsEmit ==
    \E fonts \in Ensembles, order \in Orders(assets.paths) :
        /\ ~assets.consumed
        /\ LET h == Assets_emit(assets, fonts, order, common)
           IN  /\ common' = h.c
               /\ asset_out' = [op |-> "emit", registered |-> assets.paths,
                                fonts |-> fonts, r |-> h.r]
        /\ assets' = [paths |-> EmptyMap, consumed |-> TRUE]
        /\ UNCHANGED <<state, result, done, last, seen, region, nev, path_in, hist>>

\* Assets::into_serialize at the end of the run, and the manifest written and
\* read back
AssetsIntoSerialize ==
    \E fonts \in Ensembles :
        /\ ~assets.consumed
        /\ LET manifest == Assets_into_serialize(assets, fonts)
               ser == serialize(manifest)
           IN  asset_out' = [op |-> "into_serialize", registered |-> assets.paths,
                             fonts |-> fonts, manifest |-> manifest, ser |-> ser,
                             back |-> IF ser.ok THEN deserialize(ser) ELSE EmptyMap]
        /\ assets' = [paths |-> EmptyMap, consumed |-> TRUE]
        /\ UNCHANGED <<state, common, result, done, last, seen, region, nev, path_in, hist>>

-----------------------------------------------------------------------------
(* Fonts: define_native_font events, then the first text. *)

Sp(cmd, arg) == [cmd |-> cmd, arg |-> arg, utf8 |-> TRUE, x |-> 0, y |-> 0]

FontDef(name, font_num, size, face_index) ==
    [name |-> name, font_num |-> font_num, size |-> size, face_index |-> face_index]

\* a.otf by two names and with two faces, b, the face that b lacks, a missing file
FontVariants ==
    {<<<<"a">>, 10, 0>>, <<<<"a">> \o OTF, 20, 0>>, <<<<"a">> \o OTF, 10, 1>>,
     <<<<"b">>, 20, 0>>, <<<<"b">>, 10, 1>>, <<<<"m">>, 10, 0>>}

FontDefs == {FontDef(v[1], font_num, v[2], v[3]) : v \in FontVariants, font_num \in 1..3}

Text(font_num, text) ==
    [font_num |-> font_num, text |-> text, glyphs |-> <<>>, xs |-> <<>>, ys |-> <<>>]

\* the alphabets of the runs: one text, one font, one file type of each kind
TextH == {Text(1, <<"h">>)}
FontB == {FontDef(<<"b">>, 1, 10, 0)}
SpxAndXdv == {"Spx", "Xdv"}

NextFonts ==
    \/ DefineNativeFont(FontDefs, MaxFontEvents)
    \/ TextAndGlyphs(TextH, {TRUE}, MaxFontEvents + 1)

SpecFonts == EngineInit /\ [][NextFonts]_vars

\* the InitializationState or EmittingState held by the state
Inner == state.s

Registered == IF state.tag = "Invalid" THEN {} ELSE DOMAIN Inner.fonts

\* C6: a define_native_font event for a font id that is already registered
\* changes nothing: the FontInfo of every id, the fd_key table, the font-data
\* table and the main-body font size are as before, and nothing is read or
\* written, whatever name, size or face index the event carries.
C6_RedefinitionIsNoOp ==
    [][(/\ last'.ev = "define_native_font"
        /\ state.tag = "Initializing"
        /\ last'.e.font_num \in DOMAIN state.s.fonts)
       => (/\ state' = state
           /\ common' = common
           /\ result' = "ok")]_vars

\* a registered id was defined again with another size, face or file
C6_Witness ==
    /\ last.ev = "define_native_font"
    /\ state.tag = "Initializing"
    /\ result = "ok"
    /\ last.e.font_num \in Registered
    /\ LET fi == Inner.fonts[last.e.font_num]
       IN  /\ fi.size # last.e.size
           /\ fi.face_index # last.e.face_index
           /\ fi.rel_url = <<"b">> /\ last.e.name = <<"a">> \o OTF

\* the name the input resolver resolves a font name to
ResolvedName(name) == IF name \in DOMAIN InputFiles THEN name ELSE name \o OTF

\* the event that registered font id `id`: the first that names it
FirstDef(id) == seen[CHOOSE i \in 1..Len(seen) : seen[i].font_num = id]

PairOf(id) == <<ResolvedName(FirstDef(id).name), FirstDef(id).face_index>>

Pairs == {PairOf(id) : id \in Registered}

\* when the pair was first seen, and how many pairs were seen before it
FirstSeen(p) ==
    Min({i \in 1..Len(seen) : /\ seen[i].font_num \in Registered
                              /\ <<ResolvedName(seen[i].name), seen[i].face_index>> = p})

Rank(p) == Cardinality({q \in Pairs : FirstSeen(q) < FirstSeen(p)})

\* C7: the fd_key of every registered font is the first-seen rank of its
\* (resolved name, face index) pair, so equal pairs share a key, distinct pairs
\* have distinct keys and the keys are 0..n-1; the font-data table holds one
\* entry per key, each loaded by one from_opentype call.
C7_FdKeyIsFirstSeenRank ==
    state.tag = "Initializing" =>
        /\ \A id \in Registered : Inner.fonts[id].fd_key = Rank(PairOf(id))
        /\ {Inner.fonts[id].fd_key : id \in Registered} = 0..(Cardinality(Pairs) - 1)
        /\ DOMAIN Inner.font_data = 0..(Cardinality(Pairs) - 1)
        /\ \A id \in Registered :
              LET p == PairOf(id)
                  fd == Inner.font_data[Rank(p)]
              IN  /\ <<fd.basename, fd.face>> = p
                  /\ Count(common.loads, p) = 1

\* three fonts over two pairs: ids 1 and 3 share the first pair's key
C7_Witness ==
    /\ state.tag = "Initializing"
    /\ Registered = {1, 2, 3}
    /\ PairOf(1) = PairOf(3) /\ PairOf(1) # PairOf(2)
    /\ FirstDef(1).name # FirstDef(3).name
    /\ seen[1].font_num = 1 /\ seen[2].font_num = 2
    /\ Inner.fonts[3].fd_key = 0 /\ Inner.fonts[2].fd_key = 1

\* the files that several font ids use, and the faces used of a file
SharedFiles ==
    {p[1] : p \in {q \in Pairs : Cardinality({id \in Registered : PairOf(id) = q}) >= 2}}

FacesOf(f) == {p[2] : p \in {q \in Pairs : q[1] = f}}

\* C8: when several font ids resolve to the same (file, face index) pair, the
\* font file is opened through the input resolver and copied to the output
\* directory exactly once.
C8_FontFileReadAndCopiedOnce ==
    state.tag = "Initializing" =>
        \A f \in SharedFiles :
            Cardinality(FacesOf(f)) = 1
            => /\ Count(common.opened, f) = 1
               /\ Cardinality({i \in 1..Len(common.written) :
                                  common.written[i].path = <<Last(Split(f, "/"))>>}) = 1

-----------------------------------------------------------------------------
(* Canvas: one font, text and glyph runs, nested canvas regions, sealing. *)

SpAt(cmd, arg, x, y) == [cmd |-> cmd, arg |-> arg, utf8 |-> TRUE, x |-> x, y |-> y]

Run(font_num, glyphs, xs, ys) ==
    [font_num |-> font_num, glyphs |-> glyphs, xs |-> xs, ys |-> ys]

\* a glyph run at the page origin
RunAtOrigin == {Run(1, <<1>>, <<0>>, <<0>>)}

\* the runs of the canvases: glyph 1, glyph 2 (no metrics), glyphs 3 (no
\* reverse mapping) and 4
CanvasRuns ==
    {Run(1, <<1>>, <<110>>, <<205>>), Run(1, <<2>>, <<130>>, <<230>>),
     Run(1, <<3, 4>>, <<95, 140>>, <<180, 220>>)}

\* a text that comes with its glyph
CanvasTexts ==
    {[font_num |-> 1, text |-> <<"h">>, glyphs |-> <<1>>, xs |-> <<105>>, ys |-> <<204>>]}

CanvasSpecials ==
    {SpAt("tdux:cs ", Math, 100, 200), SpAt("tdux:cs ", DMath, 50, 60),
     SpAt("tdux:cs ", Math \o <<"s">>, 10, 20),
     SpAt("tdux:ce ", Math, 0, 0), Sp("tdux:contentFinished", <<>>)}

NextCanvas ==
    \/ DefineNativeFont(FontB, MaxCanvasEvents)
    \/ Special(CanvasSpecials, {TRUE}, MaxCanvasEvents)
    \/ GlyphRun(CanvasRuns, {TRUE}, MaxCanvasEvents)
    \/ TextAndGlyphs(CanvasTexts, {TRUE}, MaxCanvasEvents)

SpecCanvas == EngineInit /\ [][NextCanvas]_vars

\* C1: counting the cs and ce specials that reach an unsealed Emitting state
\* from the cs that opened the region, the canvas stays active and no layout
\* runs while the closes are fewer than the opens; once the closes equal the
\* opens the layout has run exactly once and no canvas is active.
C1_LayoutAtTheBalancingClose ==
    state.tag = "Emitting" =>
        LET canvas == Inner.current_canvas IN
        /\ canvas.some =>
              /\ region.closes < region.opens
              /\ canvas.depth = region.opens - region.closes
              /\ common.layouts = region.base
        /\ (~canvas.some /\ region.opens > 0) =>
              /\ region.closes = region.opens
              /\ common.layouts = region.base + 1

\* two opens, a glyph, two closes: the wrapper with the glyph is in the content
C1_Witness ==
    /\ state.tag = "Emitting" /\ result = "ok"
    /\ ~Inner.current_canvas.some
    /\ region.opens = 2 /\ region.closes = 2
    /\ common.layouts = 1
    /\ last.ev = "special" /\ last.e.cmd = "tdux:ce "
    /\ \E i \in 1..Len(Inner.current_content) : Inner.current_content[i].k = "ci"

-----------------------------------------------------------------------------
(* Output paths: the run's specials name one path, drawn from all the strings *)
(* over 'a', '/' and '.' up to MaxPathLen.                                    *)

ABIndexHtml == <<"a", "/", "b", "/">> \o IndexHtml

Paths == StringsUpTo({"a", "/", "."}, MaxPathLen) \cup {ABIndexHtml}

PathInit ==
    /\ path_in \in Paths
    /\ hist = NoHist
    /\ EngineNew

PathSpecials ==
    {Sp("tdux:setTemplate ", <<"t">>),
     Sp("tdux:setOutputPath ", path_in),
     Sp("tdux:emit", <<>>),
     Sp("tdux:provideFile ", <<"b", " ">> \o path_in)}

NextPath ==
    \/ Special(PathSpecials, {TRUE}, MaxPathEvents)
    \/ TextAndGlyphs(TextH, {TRUE}, MaxPathEvents)
    \/ Finished

SpecPath == PathInit /\ [][NextPath]_vars

\* the path has a `..` between two '/' or at an end
HasDotDotSegment(p) ==
    \E i \in 1..(Len(p) - 1) :
        /\ p[i] = "." /\ p[i + 1] = "."
        /\ (i = 1 \/ p[i - 1] = "/")
        /\ (i + 1 = Len(p) \/ p[i + 2] = "/")

\* the number of non-empty segments of the path
Levels(p) == Cardinality({i \in 1..Len(p) : p[i] # "/" /\ (i = 1 \/ p[i - 1] = "/")})

IsEmit(ev) == ev.ev = "special" /\ ev.e.cmd = "tdux:emit" /\ ev.e.arg = <<>>

IsProvideFile(ev) ==
    ev.ev = "special" /\ ev.e.cmd = "tdux:provideFile " /\ split_once(ev.e.arg, " ").some

ContentOf(st) == IF st.tag = "Emitting" THEN st.s.current_content ELSE <<>>

\* the step was a file finalize: an emit special, or finished with content
FileFinalized ==
    \/ IsEmit(last')
    \/ last'.ev = "finished" /\ last.ev # "finished" /\ ContentOf(state) # <<>>

\* C2: a file finalize whose pending output path, or a provideFile whose
\* destination, has a `..` segment ends in a fatal error, creates no file and
\* leaves the content buffer as it was.
C2_DotDotPathIsFatal ==
    [][(/\ state'.tag = "Emitting"
        /\ \/ FileFinalized /\ HasDotDotSegment(state'.s.next_output_path)
           \/ IsProvideFile(last') /\ HasDotDotSegment(split_once(last'.e.arg, " ").b))
       => (/\ result' = "err"
           /\ common'.written = common.written
           /\ ContentOf(state') = ContentOf(state))]_vars

\* an emit failed on a/.. with text in the buffer, which is still there
C2_Witness ==
    /\ IsEmit(last) /\ result = "err"
    /\ state.tag = "Emitting"
    /\ Inner.next_output_path = <<"a", "/", ".", ".">>
    /\ Inner.next_template_path = <<"t">>
    /\ Inner.current_content = <<Ch("h")>>
    /\ common.written = <<>>

\* "../" repeated n times
DotDotSlash(n) == [i \in 1..(3 * n) |-> IF i % 3 = 0 THEN "/" ELSE "."]

\* C10: a file finalize that accepts the pending output path injects as
\* tduxRelTop "../" repeated levels-1 times when the path has levels >= 2
\* non-empty segments, and the empty string when it has 0 or 1.
C10_RelTopPrefix ==
    [][(/\ FileFinalized /\ state'.tag = "Emitting"
        /\ ~HasDotDotSegment(state'.s.next_output_path))
       => LET levels == Levels(state'.s.next_output_path) IN
          /\ TduxRelTop \in DOMAIN state'.s.context
          /\ state'.s.context[TduxRelTop] =
                 IF levels >= 2 THEN DotDotSlash(levels - 1) ELSE <<>>]_vars

\* a/a/a was written with the prefix ../../
C10_Witness ==
    /\ IsEmit(last) /\ state.tag = "Emitting" /\ result = "ok"
    /\ Inner.next_output_path = <<"a", "/", "a", "/", "a">>
    /\ Inner.context[TduxRelTop] = <<".", ".", "/", ".", ".", "/">>
    /\ Len(common.written) = 1 /\ common.written[1].path = <<<<"a">>, <<"a">>, <<"a">>>>

-----------------------------------------------------------------------------
(* Phases: every kind of event, with initializations that fail. *)

PhaseSpecials ==
    {Sp("tdux:addTemplate ", <<"t">>),
     Sp("tdux:addTemplate ", <<"u">>),
     Sp("tdux:setTemplate ", <<"t">>),
     Sp("tdux:emit", <<>>),
     Sp("tdux:provideFile ", <<"b", " ", "b">>),
     Sp("tdux:provideFile", <<>>),
     Sp("tdux:contentFinished", <<>>),
     Sp("tdux:setOutputPath ", <<"x">>),
     Sp("tdux:setTemplateVariable ", <<"v", " ", "w">>),
     Sp("tdux:cs ", Math),
     Sp("tdux:ce ", Math),
     Sp("tdux:as ", Em),
     Sp("tdux:ae ", Em),
     [Sp("tdux:emit", <<>>) EXCEPT !.utf8 = FALSE]}

NextPhase ==
    \/ Header(SpxAndXdv, MaxPhaseEvents)
    \/ Special(PhaseSpecials, BOOLEAN, MaxPhaseEvents)
    \/ TextAndGlyphs(TextH, BOOLEAN, MaxPhaseEvents)
    \/ GlyphRun(RunAtOrigin, {TRUE}, MaxPhaseEvents)
    \/ DefineNativeFont(FontB, MaxPhaseEvents)
    \/ Finished

SpecPhase == EngineInit /\ [][NextPhase]_vars

\* C4: while the run goes on (no handler has failed and finished has not been
\* called), the state that the next handler or finished will find is never
\* the Invalid placeholder, and no handler has hit the Invalid arm.
C4_InvalidIsNeverObserved ==
    /\ result # "panic"
    /\ Running => state.tag # "Invalid"

\* an initialization failed in a text event after an earlier event, which
\* left the placeholder behind in a run that has stopped
C4_Witness ==
    /\ state = Invalid /\ result = "err"
    /\ last.ev = "text_and_glyphs" /\ nev >= 2

\* C5: a step never enters Initializing from another phase and never leaves
\* Emitting, and ensure_initialized applied to an Emitting state succeeds and
\* returns that state with all its fields.
C5_PhaseOnlyMovesForward ==
    [][/\ state'.tag = "Initializing" => state.tag = "Initializing"
       /\ state.tag = "Emitting" => state'.tag = "Emitting"
       /\ state'.tag = "Emitting" =>
              \A tempdir_ok \in BOOLEAN :
                  ensure_initialized(state', tempdir_ok) = [st |-> state', r |-> "ok"]
       /\ (state.tag = "Emitting" /\ last'.ev = "text_and_glyphs") =>
              LET h == Emit_handle_text_and_glyphs(state.s, last'.e.font_num, last'.e.text,
                                                   last'.e.glyphs, last'.e.xs, last'.e.ys,
                                                   common)
              IN  state' = Emitting(h.s)]_vars

\* a second text event found the state Emitting with the first one's text
C5_Witness ==
    /\ state.tag = "Emitting" /\ result = "ok"
    /\ last.ev = "text_and_glyphs" /\ nev >= 2
    /\ Len(Inner.current_content) >= 2

-----------------------------------------------------------------------------
(* Assets: registrations, then one of the two ways to finish. *)

AssetSpecials ==
    {ProvideFile(<<"b", " ", "x">>),
     ProvideFile(<<"b", " ", ".", ".", "/", "x">>),
     ProvideFile(<<"m", " ", "y">>),
     ProvideFile(<<"j", " ", "/", "x">>),
     ProvideFile(<<"b", "x">>),
     ProvideSpecial(FontCssKind \o <<" ", "c">>),
     ProvideSpecial(FontCssKind \o <<" ", "a", "/", ".", ".", "/", "c">>),
     ProvideSpecial(FontCssKind \o <<" ", "x">>),
     ProvideSpecial(<<"z", " ", "c">>),
     ProvideSpecial(FontCssKind),
     OtherSpecial}

NextAssets ==
    \/ TryHandleSpecial(AssetSpecials, MaxAssetOps)
    \/ AssetsEmit
    \/ AssetsIntoSerialize

SpecAssets == EngineInit /\ [][NextAssets]_vars

\* a ProvideFile with a separator, or a ProvideSpecial of kind font-css
WellFormed(special) ==
    /\ special.variant \in {"ProvideFile", "ProvideSpecial"}
    /\ split_once(special.spec, " ").some
    /\ special.variant = "ProvideSpecial" => split_once(special.spec, " ").a = FontCssKind

DestOf(special) == split_once(special.spec, " ").b

\* C3 as stated: a registration whose destination has a `..` segment is not
\* handled, no key of Assets.paths has a `..` segment, and no key of the
\* manifest of into_serialize has one.
C3_RegistrationRejectsDotDot ==
    /\ (/\ asset_out.op = "try_handle_special" /\ WellFormed(asset_out.special)
        /\ HasDotDotSegment(DestOf(asset_out.special))) => ~asset_out.handled
    /\ \A d \in DOMAIN assets.paths : ~HasDotDotSegment(d)
    /\ asset_out.op = "into_serialize" =>
           \A d \in DOMAIN asset_out.manifest : ~HasDotDotSegment(d)

\* C3 amended: a well-formed registration is handled and keeps its destination
\* as given, `..` segments included; into_serialize returns every registered
\* destination as a key; it is emit that rejects a `..` destination: it fails
\* when one is registered and no file it creates has a `..` piece.
C3_DotDotRejectedAtEmit ==
    /\ (asset_out.op = "try_handle_special" /\ WellFormed(asset_out.special)) =>
           /\ asset_out.handled
           /\ DestOf(asset_out.special) \in DOMAIN assets.paths
    /\ asset_out.op = "into_serialize" =>
           DOMAIN asset_out.registered \subseteq DOMAIN asset_out.manifest
    /\ asset_out.op = "emit" =>
           /\ (\E d \in DOMAIN asset_out.registered : HasDotDotSegment(d)) =>
                  asset_out.r = "err"
           /\ \A i \in 1..Len(common.written) :
                  \A j \in 1..Len(common.written[i].path) :
                      common.written[i].path[j] # DotDot

\* emit failed on ../x after it had written x
C3_Witness ==
    /\ asset_out.op = "emit" /\ asset_out.r = "err"
    /\ <<".", ".", "/", "x">> \in DOMAIN asset_out.registered
    /\ \E i \in 1..Len(common.written) : common.written[i].path = <<<<"x">>>>

\* C9: the manifest of into_serialize has, for every registered destination,
\* an entry of the same kind with the Copy source or the ensemble's face
\* data, and the manifest read back from its serialized form is the same
\* mapping.
C9_ManifestRoundTrip ==
    asset_out.op = "into_serialize" =>
        /\ \A d \in DOMAIN asset_out.registered :
               /\ d \in DOMAIN asset_out.manifest
               /\ asset_out.manifest[d].kind = asset_out.registered[d].kind
               /\ asset_out.manifest[d].v =
                      IF asset_out.registered[d].kind = "Copy"
                      THEN asset_out.registered[d].src
                      ELSE asset_out.fonts.families
        /\ asset_out.ser.ok
        /\ asset_out.back = asset_out.manifest

-----------------------------------------------------------------------------
(* The scenario a/b/index.html *)

AfterEmitOfABIndexHtml ==
    /\ IsEmit(last) /\ state.tag = "Emitting"
    /\ Inner.next_output_path = ABIndexHtml

\* C11 as stated: after setOutputPath a/b/index.html the file finalize injects
\* the prefix "../", one repetition for 2 levels.
C11_OneRepetition ==
    AfterEmitOfABIndexHtml =>
        /\ TduxRelTop \in DOMAIN Inner.context
        /\ Inner.context[TduxRelTop] = DotDotSlash(1)

\* C11 amended: after setOutputPath a/b/index.html the file finalize counts the
\* 3 levels a, b and index.html, injects the prefix "../../", and the file it
\* writes is at those 3 pieces below the output base.
C11_TwoRepetitions ==
    AfterEmitOfABIndexHtml =>
        /\ TduxRelTop \in DOMAIN Inner.context
        /\ Inner.context[TduxRelTop] = DotDotSlash(2)
        /\ result = "ok" =>
               /\ common.written # <<>>
               /\ Last(common.written).path = <<<<"a">>, <<"b">>, IndexHtml>>
               /\ Last(common.written).data.context[TduxRelTop] = DotDotSlash(2)

\* a/b/index.html was written with text in it
C11_Witness ==
    /\ AfterEmitOfABIndexHtml /\ result = "ok"
    /\ Len(common.written) = 1
    /\ common.written[1].path = <<<<"a">>, <<"b">>, IndexHtml>>
    /\ common.written[1].data.context[TduxContent] = <<Ch("h")>>
    /\ Inner.context[TduxRelTop] = <<".", ".", "/", ".", ".", "/">>

-----------------------------------------------------------------------------
(* Content: texts and automatic tags, a canvas and sealing, in a run that      *)
(* records its events.                                                        *)

Hello == <<"H", "e", "l", "l", "o">>
World == <<"w", "o", "r", "l", "d">>

ContentSpecials ==
    {Sp("tdux:as ", Em), Sp("tdux:ae ", Em), Sp("tdux:cs ", Math), Sp("tdux:ce ", Math),
     Sp("tdux:contentFinished", <<>>)}

ContentTexts == {Text(1, Hello), Text(1, World)}

NextContent ==
    \/ Special(ContentSpecials, {TRUE}, MaxContentEvents)
    \/ TextAndGlyphs(ContentTexts, {TRUE}, MaxContentEvents)
    \/ GlyphRun(RunAtOrigin, {TRUE}, MaxContentEvents)

SpecContent == HistInit /\ [][NextContent]_vars

Sealed(st) == st.tag = "Emitting" /\ st.s.content_finished
InCanvas(st) == st.tag = "Emitting" /\ st.s.current_canvas.some

\* the characters of a buffer that holds only characters
Chars(content) == [i \in 1..Len(content) |-> content[i].c]
OfChars(str) == [i \in 1..Len(str) |-> [k |-> "ch", c |-> str[i]]]

\* the buffer ends with '>': a tag's, or that of the closing tag of a canvas
EndsWithGt(content) ==
    \/ Last(content).k # "ch"
    \/ Last(content).c = ">"

SpecialEv(cmd, arg) == [ev |-> "special", e |-> Sp(cmd, arg)]
TextEv(text) == [ev |-> "text_and_glyphs", e |-> Text(1, text)]

\* C12: a text event with no canvas active and the content not sealed makes
\* the buffer the old buffer, then one space exactly when the old buffer is
\* non-empty and does not end with '>', then the text; and the events text
\* Hello, as em, text world, ae em leave the buffer Hello<em>world</em>.
C12_SpaceBeforeText ==
    [][/\ (/\ last'.ev = "text_and_glyphs" /\ state'.tag = "Emitting"
           /\ ~Sealed(state) /\ ~InCanvas(state))
          => LET old == ContentOf(state)
                 space == IF old # <<>> /\ ~EndsWithGt(old)
                          THEN OfChars(<<" ">>) ELSE <<>>
             IN  ContentOf(state') = old \o space \o OfChars(last'.e.text)
       /\ hist'.evs = <<TextEv(Hello), SpecialEv("tdux:as ", Em), TextEv(World),
                        SpecialEv("tdux:ae ", Em)>>
          => Chars(ContentOf(state')) =
                 Hello \o <<"<", "e", "m", ">">> \o World \o <<"<", "/", "e", "m", ">">>]_vars

\* the scenario has run
C12_Witness ==
    /\ hist.evs = <<TextEv(Hello), SpecialEv("tdux:as ", Em), TextEv(World),
                    SpecialEv("tdux:ae ", Em)>>
    /\ Len(ContentOf(state)) = 19

\* text-and-glyphs, glyph run, as, ae, cs, ce
IsContentEvent(ev) ==
    \/ ev.ev \in {"text_and_glyphs", "glyph_run"}
    \/ ev.ev = "special" /\ ev.e.cmd \in {"tdux:as ", "tdux:ae ", "tdux:cs ", "tdux:ce "}

\* C13: a content event that finds the content sealed leaves the buffer and
\* the canvas as they were and logs the post-finish warning exactly when none
\* has been logged yet, so that a run never holds more than one.
C13_OneWarningAfterSealing ==
    [][/\ (Sealed(state) /\ IsContentEvent(last'))
          => /\ Sealed(state')
             /\ state'.s.current_content = state.s.current_content
             /\ state'.s.current_canvas = state.s.current_canvas
             /\ common'.warnings = IF Count(common.warnings, PostFinish) = 0
                                   THEN Append(common.warnings, PostFinish)
                                   ELSE common.warnings
       /\ Count(common'.warnings, PostFinish) <= 1]_vars

\* three content events after the sealing of a buffer that held Hello
C13_Witness ==
    /\ hist.evs = <<TextEv(Hello), SpecialEv("tdux:contentFinished", <<>>), TextEv(World),
                    [ev |-> "glyph_run", e |-> Run(1, <<1>>, <<0>>, <<0>>)],
                    SpecialEv("tdux:as ", Em)>>
    /\ Count(common.warnings, PostFinish) = 1
    /\ ContentOf(state) = <<>>

-----------------------------------------------------------------------------
(* Specials that find the content sealed *)

SealedSpecial(cmd) ==
    /\ Sealed(state) /\ state'.tag = "Emitting"
    /\ last'.ev = "special" /\ last'.e.utf8 /\ last'.e.cmd = cmd

\* C14 as stated: once the content is sealed, a special other than emit and
\* contentFinished leaves the pending template path, the pending output path
\* and the template variables unchanged and copies no file.
C14_SealedIgnoresAllSpecials ==
    [][(/\ Sealed(state) /\ state'.tag = "Emitting"
        /\ last'.ev = "special" /\ last'.e.utf8
        /\ last'.e.cmd \notin {"tdux:emit", "tdux:contentFinished"})
       => /\ state'.s.next_template_path = state.s.next_template_path
          /\ state'.s.next_output_path = state.s.next_output_path
          /\ state'.s.context = state.s.context
          /\ common'.written = common.written]_vars

\* C14 amended: once the content is sealed, setTemplate and setOutputPath
\* still set the pending paths, setTemplateVariable still sets the variable
\* and provideFile still copies the file, without a warning; it is as, ae, cs
\* and ce that leave the pending paths and the variables unchanged and write
\* nothing.
C14_SealedIgnoresContentSpecials ==
    [][/\ SealedSpecial("tdux:setTemplate ")
          => state'.s.next_template_path = last'.e.arg
       /\ SealedSpecial("tdux:setOutputPath ")
          => state'.s.next_output_path = last'.e.arg
       /\ SealedSpecial("tdux:setTemplateVariable ")
          => /\ <<"v">> \in DOMAIN state'.s.context
             /\ state'.s.context[<<"v">>] = <<"w">>
       /\ SealedSpecial("tdux:provideFile ")
          => /\ result' = "ok"
             /\ common'.written = Append(common.written,
                                         [path |-> <<<<"b">>>>, data |-> InputFiles[<<"b">>]])
             /\ common'.warnings = common.warnings
       /\ (\E cmd \in {"tdux:as ", "tdux:ae ", "tdux:cs ", "tdux:ce "} : SealedSpecial(cmd))
          => /\ state'.s.next_template_path = state.s.next_template_path
             /\ state'.s.next_output_path = state.s.next_output_path
             /\ state'.s.context = state.s.context
             /\ common'.written = common.written]_vars

\* a file was copied and the output path set after the sealing
C14_Witness ==
    /\ Sealed(state) /\ result = "ok"
    /\ last.ev = "special" /\ last.e = Sp("tdux:setOutputPath ", <<"x">>)
    /\ Inner.next_output_path = <<"x">>
    /\ \E i \in 1..Len(common.written) : common.written[i].path = <<<<"b">>>>
    /\ common.font_emits = <<>> /\ nev >= 4

-----------------------------------------------------------------------------
(* The canvas layout: the bounding box and the positioned glyphs *)

SetMin(S) == CHOOSE x \in S : \A y \in S : x <= y
SetMax(S) == CHOOSE x \in S : \A y \in S : x >= y

\* the metrics the layout finds for the i-th glyph of a canvas
MetricsOf(self, glyphs, i) ==
    LET fi == self.fonts[glyphs[i].font_num]
    IN  lookup_metrics(self.font_data[fi.fd_key], glyphs[i].glyph, fi.size)

\* the union of the boxes of the glyphs that have metrics, all zero without one
UnionBox(self, glyphs) ==
    LET M == {i \in 1..Len(glyphs) : MetricsOf(self, glyphs, i).some} IN
    IF M = {} THEN [x_min |-> 0, x_max |-> 0, y_min |-> 0, y_max |-> 0]
    ELSE [x_min |-> SetMin({glyphs[i].dx - MetricsOf(self, glyphs, i).lsb : i \in M}),
          x_max |-> SetMax({glyphs[i].dx + MetricsOf(self, glyphs, i).advance : i \in M}),
          y_min |-> SetMin({glyphs[i].dy - MetricsOf(self, glyphs, i).ascent : i \in M}),
          y_max |-> SetMax({glyphs[i].dy - MetricsOf(self, glyphs, i).descent : i \in M})]

FontsDeclared(self, glyphs) ==
    \A i \in 1..Len(glyphs) : glyphs[i].font_num \in DOMAIN self.fonts

\* the step is the ce that closes the canvas and runs the layout
Closes == /\ InCanvas(state) /\ ~Sealed(state)
          /\ last'.ev = "special" /\ last'.e.cmd = "tdux:ce "
          /\ state.s.current_canvas.depth = 1

\* the opening tag of the last wrapper of a content buffer
LastWrapper(content) ==
    content[SetMax({i \in 1..Len(content) : content[i].k = "open"})]

\* the wrapper is sized from the box b: the left edge is the padding, the
\* extents the width and the height, the top the vertical alignment
WrapperShows(w, b) ==
    /\ w.padding_left.num = -b.x_min
    /\ w.width.num = b.x_max - b.x_min
    /\ w.height.num = b.y_max - b.y_min
    /\ w.valign # <<>> => w.valign[1].num = -b.y_max

\* C15: at the close of a canvas whose glyphs all name declared fonts, the
\* layout succeeds and the wrapper is sized from the union, over the glyphs with
\* metrics, of dx - lsb .. dx + advance and dy - ascent .. dy - descent; a glyph
\* without metrics contributes nothing, and without any glyph with metrics the
\* box is all zero.
C15_BoxIsUnionOverMetrics ==
    [][(Closes /\ FontsDeclared(state.s, state.s.current_canvas.glyphs)) =>
          LET glyphs == state.s.current_canvas.glyphs
              U == UnionBox(state.s, glyphs)
              b == bounds_pass(glyphs, state.s.fonts, state.s.font_data, NoBounds)
          IN  /\ result' = "ok"
              /\ <<b.x_min, b.x_max, b.y_min, b.y_max>> = <<U.x_min, U.x_max, U.y_min, U.y_max>>
              /\ WrapperShows(LastWrapper(state'.s.current_content), U)
              /\ (\A i \in 1..Len(glyphs) : ~MetricsOf(state.s, glyphs, i).some)
                    => U = [x_min |-> 0, x_max |-> 0, y_min |-> 0, y_max |-> 0]]_vars

\* a canvas closed over a glyph with metrics and a glyph without: the wrapper
\* has the box of the first alone
C15_Witness ==
    /\ state.tag = "Emitting" /\ result = "ok" /\ ~InCanvas(state)
    /\ last.ev = "special" /\ last.e.cmd = "tdux:ce "
    /\ Len(Inner.current_content) = 4
    /\ {Inner.current_content[i].k : i \in 2..3} = {"ci"}
    /\ {Inner.current_content[i].ch : i \in 2..3} = {"x", "y"}
    /\ WrapperShows(Inner.current_content[1],
                    [x_min |-> 8, x_max |-> 20, y_min |-> -10, y_max |-> 8])

\* the canvas about to close is the math canvas opened at (100, 200) holding
\* one glyph, which the run just before the close placed at (110, 205): glyph 1
\* of font 1, whose metrics are lsb 2, advance 10, ascent 15, descent -3
SingleGlyphMath ==
    LET canvas == state.s.current_canvas IN
    /\ Closes /\ canvas.kind = Math /\ canvas.x0 = 100 /\ canvas.y0 = 200
    /\ last = [ev |-> "glyph_run", e |-> Run(1, <<1>>, <<110>>, <<205>>)]
    /\ Len(canvas.glyphs) = 1
    /\ canvas.glyphs[1].glyph = 1 /\ canvas.glyphs[1].font_num = 1
    /\ FontsDeclared(state.s, canvas.glyphs)
    /\ MetricsOf(state.s, canvas.glyphs, 1) = Metrics(2, 10, 15, -3)

\* the close computed the box and appended one inline span wrapper, sized from
\* it, around exactly one positioned glyph
ClosedWith(box) ==
    LET b == bounds_pass(state.s.current_canvas.glyphs, state.s.fonts,
                         state.s.font_data, NoBounds)
        old == state.s.current_content
        new == state'.s.current_content
        n == Len(new)
    IN  /\ result' = "ok"
        /\ <<b.x_min, b.x_max, b.y_min, b.y_max>> = box
        /\ n >= 3 /\ n - 3 \in {Len(old), Len(old) + 1}
        /\ new[n - 2].k = "open" /\ new[n - 2].element = "span"
        /\ new[n - 2].class = "canvas-inline"
        /\ WrapperShows(new[n - 2], [x_min |-> box[1], x_max |-> box[2],
                                     y_min |-> box[3], y_max |-> box[4]])
        /\ new[n - 1].k = "ci" /\ new[n - 1].ch = "x"
        /\ new[n].k = "close" /\ new[n].element = "span"

\* C16 as stated: the box of the single glyph is xmin 8, xmax 20, ymin -10,
\* ymax 13.
C16_YMaxThirteen == [][SingleGlyphMath => ClosedWith(<<8, 20, -10, 13>>)]_vars

\* C16: for cs math at (100, 200) holding the single glyph at (110, 205) with
\* lsb 2, advance 10, ascent 15, descent -3, the box computed at ce math is
\* xmin 8, xmax 20, ymin -10, ymax 8, and the close appends one inline span
\* wrapper containing exactly one positioned glyph element.
C16_YMaxEight == [][SingleGlyphMath => ClosedWith(<<8, 20, -10, 8>>)]_vars

\* the content is the wrapper of the single glyph alone
C16_Witness ==
    /\ state.tag = "Emitting" /\ result = "ok" /\ ~InCanvas(state)
    /\ last.ev = "special" /\ last.e = SpAt("tdux:ce ", Math, 0, 0)
    /\ Len(Inner.current_content) = 3
    /\ Inner.current_content[1].k = "open" /\ Inner.current_content[1].element = "span"
    /\ Inner.current_content[2].k = "ci" /\ Inner.current_content[2].ch = "x"
    /\ Inner.current_content[2].left.num = 10
    /\ WrapperShows(Inner.current_content[1],
                    [x_min |-> 8, x_max |-> 20, y_min |-> -10, y_max |-> 8])
    /\ common.layouts = 1 /\ nev = 5

\* the reverse mapping the layout finds for a glyph of a canvas
MappingOf(self, gi) ==
    lookup_mapping(self.font_data[self.fonts[gi.font_num].fd_key], gi.glyph)

\* the glyphs of a canvas that have a reverse mapping, in arrival order
Mapped(self, glyphs) ==
    LET HasMapping(gi) == MappingOf(self, gi).some IN SelectSeq(glyphs, HasMapping)

\* the elements between the last wrapper's opening tag and the end tag
LastInner(content) ==
    LET o == SetMax({i \in 1..Len(content) : content[i].k = "open"})
    IN  SubSeq(content, o + 1, Len(content) - 1)

Unmappable == "unable to reverse-map glyph"

\* C20: at the close of a canvas whose glyphs all name declared fonts, the
\* wrapper holds exactly one positioned element for each glyph that has a
\* reverse mapping, in arrival order, with that glyph's character and offsets,
\* and one warning is logged for each glyph that has none; a glyph without
\* metrics is emitted all the same, and the box is the union over the glyphs
\* with metrics whether they have a mapping or not.
C20_OneElementPerMappedGlyph ==
    [][(Closes /\ FontsDeclared(state.s, state.s.current_canvas.glyphs)) =>
          LET glyphs == state.s.current_canvas.glyphs
              mapped == Mapped(state.s, glyphs)
              inner == LastInner(state'.s.current_content)
              U == UnionBox(state.s, glyphs)
          IN  /\ result' = "ok"
              /\ Len(inner) = Len(mapped)
              /\ \A j \in 1..Len(mapped) :
                    /\ inner[j].k = "ci"
                    /\ inner[j].ch = MappingOf(state.s, mapped[j]).ch
                    /\ inner[j].left.num = mapped[j].dx
                    /\ inner[j].top.num = mapped[j].dy - U.y_min
              /\ Count(common'.warnings, Unmappable) - Count(common.warnings, Unmappable)
                    = Len(glyphs) - Len(mapped)
              /\ WrapperShows(LastWrapper(state'.s.current_content), U)]_vars

\* a canvas closed over glyph 2 (a mapping, no metrics) and glyphs 3 (metrics,
\* no mapping) and 4: the elements are those of 2 and 4, one warning is logged
\* and the box is that of 3 and 4
C20_Witness ==
    /\ state.tag = "Emitting" /\ result = "ok" /\ ~InCanvas(state)
    /\ last.ev = "special" /\ last.e.cmd = "tdux:ce "
    /\ Len(Inner.current_content) = 4
    /\ Inner.current_content[2].k = "ci" /\ Inner.current_content[2].ch = "y"
    /\ Inner.current_content[3].k = "ci" /\ Inner.current_content[3].ch = "S"
    /\ Count(common.warnings, Unmappable) = 1
    /\ Inner.current_content[1].k = "open"
    /\ Inner.current_content[1].width.num > 0

-----------------------------------------------------------------------------
(* The asset registry *)

\* the step is a call of try_handle_special
Tried == asset_out'.op = "try_handle_special" /\ nev' = nev + 1

\* the origin a well-formed registration names
OriginOf(special) ==
    IF special.variant = "ProvideFile"
    THEN [kind |-> "Copy", src |-> split_once(special.spec, " ").a]
    ELSE [kind |-> "FontCss"]

\* C17: try_handle_special returns true exactly for a provide-file special
\* with a separator and a provide-special of kind font-css with a separator,
\* and then the registry maps the destination to Copy of the source or to
\* FontCss, in place of any earlier entry of that destination, with every
\* other entry kept and no warning; in every other case it returns false and
\* leaves the registry as it was, with one warning for a provide-file or
\* provide-special and none for another special.
C17_TrueExactlyOnRegistration ==
    [][Tried =>
          LET special == asset_out'.special IN
          /\ asset_out'.handled = WellFormed(special)
          /\ WellFormed(special) =>
                /\ DOMAIN assets'.paths = DOMAIN assets.paths \cup {DestOf(special)}
                /\ assets'.paths[DestOf(special)] = OriginOf(special)
                /\ \A d \in DOMAIN assets.paths \ {DestOf(special)} :
                       assets'.paths[d] = assets.paths[d]
                /\ common'.warnings = common.warnings
          /\ ~WellFormed(special) =>
                /\ assets' = assets
                /\ Len(common'.warnings) = Len(common.warnings) +
                       (IF special.variant \in {"ProvideFile", "ProvideSpecial"} THEN 1 ELSE 0)]_vars

\* the destination x, registered as a copy and as the font CSS, is the font
\* CSS after the later registration
C17_Witness ==
    /\ asset_out.op = "try_handle_special" /\ asset_out.handled
    /\ asset_out.special = ProvideSpecial(FontCssKind \o <<" ", "x">>)
    /\ nev = 3 /\ Len(common.warnings) = 1
    /\ DOMAIN assets.paths = {<<"x">>}
    /\ assets.paths[<<"x">>] = [kind |-> "FontCss"]

\* the step is the call of Assets::emit
Emitted == asset_out'.op = "emit" /\ ~assets.consumed /\ assets'.consumed

\* the non-empty segments of a destination
Segments(dest_path) ==
    LET NonEmpty(piece) == piece # <<>> IN SelectSeq(Split(dest_path, "/"), NonEmpty)

\* the file a registered destination asks for
FileOf(registered, fonts, d) ==
    [path |-> Segments(d),
     data |-> IF registered[d].kind = "Copy" THEN InputFiles[registered[d].src]
              ELSE [css |-> fonts.families]]

\* C18: when emit succeeds, the files written after the font files of the
\* ensemble are one for every registered destination, each at the destination's
\* non-empty segments below the output base, holding the source's contents for
\* a Copy origin and the font CSS text for a FontCss origin, and the inputs
\* closed are one per Copy destination, its source; when a registered
\* destination has a `..` segment, emit fails and writes no file at that
\* destination's segments.
C18_OneFilePerDestination ==
    [][Emitted =>
          LET registered == assets.paths
              fonts == asset_out'.fonts
              first == Len(common.written) + Cardinality(DOMAIN fonts.files) + 1
              files == SubSeq(common'.written, first, Len(common'.written))
              closed == SubSeq(common'.closed, Len(common.closed) + 1, Len(common'.closed))
              copies == {d \in DOMAIN registered : registered[d].kind = "Copy"}
          IN  /\ asset_out'.r = "ok" =>
                    /\ Len(files) = Cardinality(DOMAIN registered)
                    /\ \E f \in [DOMAIN registered -> 1..Len(files)] :
                          /\ \A d, e \in DOMAIN registered : f[d] = f[e] => d = e
                          /\ \A d \in DOMAIN registered :
                                files[f[d]] = FileOf(registered, fonts, d)
                    /\ Len(closed) = Cardinality(copies)
                    /\ \A d \in copies :
                          Count(closed, registered[d].src) =
                              Cardinality({e \in copies : registered[e].src = registered[d].src})
              /\ \A d \in DOMAIN registered : HasDotDotSegment(d) =>
                    /\ asset_out'.r = "err"
                    /\ \A i \in Len(common.written) + 1 .. Len(common'.written) :
                          common'.written[i].path # Segments(d)]_vars

\* emit succeeded over a copy to x, a copy to /x and the font CSS at c, with
\* a font file of the ensemble written first
C18_Witness ==
    /\ asset_out.op = "emit" /\ asset_out.r = "ok"
    /\ DOMAIN asset_out.registered = {<<"x">>, <<"/", "x">>, <<"c">>}
    /\ asset_out.registered[<<"x">>] = [kind |-> "Copy", src |-> <<"b">>]
    /\ asset_out.registered[<<"c">>] = [kind |-> "FontCss"]
    /\ asset_out.fonts = OneFamily
    /\ Len(common.written) = 4 /\ Len(common.closed) = 2

-----------------------------------------------------------------------------
(* provideFile before the first content *)

\* the step hands a provideFile special naming a source and a destination to
\* an engine that is still Initializing
EarlyProvideFile ==
    /\ state.tag = "Initializing"
    /\ last'.ev = "special" /\ last'.e = Sp("tdux:provideFile ", <<"b", " ", "b">>)

TooSoonWarned(c) ==
    \E i \in 1..Len(c.warnings) : c.warnings[i] = "too-soon provideFile"

\* C19 as stated: the special is ignored with the too-soon warning and no file
\* is copied.
C19_EarlyProvideFileIgnored ==
    [][EarlyProvideFile =>
          /\ result' = "ok"
          /\ common'.warnings = Append(common.warnings, "too-soon provideFile")
          /\ common'.written = common.written]_vars

\* C19: a provideFile special that arrives while the engine is Initializing
\* first ends the initialization; when that succeeds the file is copied by this
\* very event, in the Emitting state, and when it fails the event fails and
\* copies nothing. The too-soon warning is given in neither case.
C19_EarlyProvideFileCopies ==
    [][EarlyProvideFile =>
          /\ ~TooSoonWarned(common')
          /\ result' = "ok" =>
                /\ state'.tag = "Emitting"
                /\ common'.written = Append(common.written,
                                            [path |-> <<<<"b">>>>, data |-> InputFiles[<<"b">>]])
          /\ result' # "ok" => common'.written = common.written]_vars

\* the first event of the run was the provideFile and its file is written
C19_Witness ==
    /\ nev = 1 /\ result = "ok" /\ state.tag = "Emitting"
    /\ last.ev = "special" /\ last.e = Sp("tdux:provideFile ", <<"b", " ", "b">>)
    /\ common.written = <<[path |-> <<<<"b">>>>, data |-> InputFiles[<<"b">>]]>>
    /\ common.warnings = <<>>

-----------------------------------------------------------------------------
(* The wrapper of a canvas *)

IsSpecial(ev, cmd) == ev.ev = "special" /\ ev.e.utf8 /\ ev.e.cmd = cmd

\* C21: the canvas keeps the kind of the cs that opened it through nested cs
\* specials and through ce specials, whatever kinds they name, and the wrapper
\* appended at its close is a span of class canvas-inline carrying a
\* vertical-align exactly when that kind is math; for dmath and any other kind
\* it is a div of class canvas-block without one.
C21_InlineIffOpenedAsMath ==
    [][/\ (state.tag = "Emitting" /\ ~InCanvas(state) /\ InCanvas(state'))
          => /\ IsSpecial(last', "tdux:cs ")
             /\ state'.s.current_canvas.kind = last'.e.arg
       /\ (InCanvas(state) /\ InCanvas(state'))
          => state'.s.current_canvas.kind = state.s.current_canvas.kind
       /\ (Closes /\ result' = "ok")
          => LET w == LastWrapper(state'.s.current_content)
                 end == Last(state'.s.current_content)
                 inline == state.s.current_canvas.kind = <<"m", "a", "t", "h">>
             IN  /\ w.element = (IF inline THEN "span" ELSE "div")
                 /\ w.class = (IF inline THEN "canvas-inline" ELSE "canvas-block")
                 /\ (w.valign # <<>>) = inline
                 /\ end.k = "close" /\ end.element = w.element]_vars

\* a canvas with a nested open was closed by ce math into a div: it was opened
\* as dmath or maths
C21_Witness ==
    /\ state.tag = "Emitting" /\ result = "ok" /\ ~InCanvas(state)
    /\ last.ev = "special" /\ last.e = SpAt("tdux:ce ", Math, 0, 0)
    /\ region.opens = 2 /\ region.closes = 2
    /\ Len(Inner.current_content) = 2
    /\ Inner.current_content[1].k = "open" /\ Inner.current_content[1].element = "div"
    /\ Inner.current_content[1].class = "canvas-block"
    /\ Inner.current_content[1].valign = <<>>

-----------------------------------------------------------------------------
(* What a file finalize leaves behind *)

\* the step is an emit special that succeeded
EmitSucceeded == IsSpecial(last', "tdux:emit") /\ last'.e.arg = <<>> /\ result' = "ok"

\* C22: a successful emit writes one file, at the non-empty segments of the
\* pending output path and from the pending template, empties the content
\* buffer and leaves the pending template path, the pending output path, the
\* active canvas (kind, depth, origin, glyphs) and the sealed flags as they
\* were; an emit that follows it thus writes the same path from the same
\* template.
C22_EmitResetsOnlyTheContent ==
    [][EmitSucceeded =>
          /\ state'.tag = "Emitting"
          /\ state'.s.current_content = <<>>
          /\ state'.s.next_template_path = state.s.next_template_path
          /\ state'.s.next_output_path = state.s.next_output_path
          /\ Len(common'.written) = Len(common.written) + 1
          /\ Last(common'.written).path = Segments(state.s.next_output_path)
          /\ Last(common'.written).data.template = state.s.next_template_path
          /\ state.tag = "Emitting" =>
                /\ state'.s.current_canvas = state.s.current_canvas
                /\ state'.s.content_finished = state.s.content_finished
                /\ state'.s.content_finished_warning_issued =
                       state.s.content_finished_warning_issued
          /\ state.tag = "Initializing" =>
                ~state'.s.current_canvas.some /\ ~state'.s.content_finished]_vars

\* two emits in a row with a canvas open: two files at the same path from the
\* same template, and the canvas still open
C22_Witness ==
    /\ InCanvas(state) /\ result = "ok"
    /\ IsSpecial(last, "tdux:emit") /\ nev = 5
    /\ Len(common.written) = 2
    /\ common.written[1].path = common.written[2].path
    /\ common.written[1].data.template = <<"t">>
    /\ common.written[2].data.template = <<"t">>
    /\ common.written[1].data.context[TduxContent] # <<>>
    /\ common.written[2].data.context[TduxContent] = <<>>

-----------------------------------------------------------------------------
(* The end of the run *)

\* the step is the call of finished that ends the run
RunEnds == last'.ev = "finished" /\ ~done /\ done'

-----------------------------------------------------------------------------
(* The depth of a canvas *)

Unpaired == "ignoring unpaired tdux:c[anvas]e[nd] special"

\* C24: an active canvas has depth at least 1, before and after every step,
\* and a ce special that finds no canvas and the content not sealed only logs
\* the unpaired-close warning: the Emitting state, content buffer and canvas
\* included, stays as it was and no layout runs.
C24_DepthAtLeastOne ==
    [][/\ InCanvas(state) => state.s.current_canvas.depth >= 1
       /\ InCanvas(state') => state'.s.current_canvas.depth >= 1
       /\ (/\ state.tag = "Emitting" /\ ~InCanvas(state) /\ ~Sealed(state)
           /\ IsSpecial(last', "tdux:ce "))
          => /\ result' = "ok"
             /\ state' = state
             /\ common'.warnings = Append(common.warnings, Unpaired)
             /\ common'.layouts = common.layouts
             /\ common'.written = common.written]_vars

\* a ce after the canvas was closed: one layout, the wrapper in the buffer, and
\* the warning
C24_Witness ==
    /\ state.tag = "Emitting" /\ ~InCanvas(state) /\ result = "ok"
    /\ IsSpecial(last, "tdux:ce ")
    /\ Count(common.warnings, Unpaired) = 1
    /\ common.layouts = 1
    /\ region.opens = 1 /\ region.closes = 1
    /\ Len(Inner.current_content) = 2

-----------------------------------------------------------------------------
(* Glyphs that arrive while a canvas is active *)

\* the glyphs of an event as a canvas of origin (x0, y0) holds them
Offsets(e, x0, y0) ==
    [i \in 1..Len(e.glyphs) |->
        [dx |-> e.xs[i] - x0, dy |-> e.ys[i] - y0, font_num |-> e.font_num,
         glyph |-> e.glyphs[i]]]

\* C25: the canvas opened by a cs has the position of that cs as its origin
\* and no glyphs; while it is active and the content is not sealed, a
\* text-and-glyphs or glyph-run event leaves the content buffer as it was and
\* appends its glyphs, in order, at their offsets from that origin to the
\* glyphs already held, and a nested cs changes neither the origin nor the
\* glyphs.
C25_GlyphsGoToTheCanvas ==
    [][/\ (state.tag = "Emitting" /\ ~InCanvas(state) /\ InCanvas(state'))
          => /\ state'.s.current_canvas.x0 = last'.e.x
             /\ state'.s.current_canvas.y0 = last'.e.y
             /\ state'.s.current_canvas.glyphs = <<>>
       /\ (/\ InCanvas(state) /\ ~Sealed(state)
           /\ last'.ev \in {"text_and_glyphs", "glyph_run"})
          => LET canvas == state.s.current_canvas IN
             /\ state'.s.current_content = state.s.current_content
             /\ state'.s.current_canvas =
                   [canvas EXCEPT !.glyphs = @ \o Offsets(last'.e, canvas.x0, canvas.y0)]
       /\ (InCanvas(state) /\ ~Sealed(state) /\ IsSpecial(last', "tdux:cs "))
          => /\ state'.s.current_canvas =
                   [state.s.current_canvas EXCEPT !.depth = @ + 1]
             /\ state'.s.current_content = state.s.current_content]_vars

\* the math canvas at (100, 200) holds the glyph of a text and the glyphs of a
\* run, after a nested cs at (50, 60), and the buffer is empty
C25_Witness ==
    /\ InCanvas(state) /\ result = "ok"
    /\ Inner.current_canvas.x0 = 100 /\ Inner.current_canvas.y0 = 200
    /\ Inner.current_canvas.depth = 2
    /\ Inner.current_canvas.glyphs =
          <<[dx |-> 5, dy |-> 4, font_num |-> 1, glyph |-> 1],
            [dx |-> -5, dy |-> -20, font_num |-> 1, glyph |-> 3],
            [dx |-> 40, dy |-> 20, font_num |-> 1, glyph |-> 4]>>
    /\ Inner.current_content = <<>>
    /\ last.ev = "glyph_run"

-----------------------------------------------------------------------------
(* The main-body font size *)

\* C26: a define_native_font that registers a new font id sets the main-body
\* font size to that font's size, and nothing else changes it while
\* Initializing, so it is the size of the font registered last; at the
\* transition to Emitting rems_per_tex is 1 over that size, whatever the sizes
\* of the fonts registered before.
C26_LastFontSetsTheBodySize ==
    [][/\ (/\ state.tag = "Initializing" /\ state'.tag = "Initializing"
           /\ last'.ev = "define_native_font"
           /\ DOMAIN state'.s.fonts # DOMAIN state.s.fonts)
          => /\ DOMAIN state'.s.fonts = DOMAIN state.s.fonts \cup {last'.e.font_num}
             /\ state'.s.fonts[last'.e.font_num].size = last'.e.size
             /\ state'.s.main_body_font_size = last'.e.size
       /\ (/\ state.tag = "Initializing" /\ state'.tag = "Initializing"
           /\ DOMAIN state'.s.fonts = DOMAIN state.s.fonts)
          => state'.s.main_body_font_size = state.s.main_body_font_size
       /\ (state'.tag = "Initializing" /\ result' = "ok" /\ seen' # <<>>)
          => state'.s.main_body_font_size = Last(seen').size
       /\ (state.tag = "Initializing" /\ state'.tag = "Emitting")
          => /\ state'.s.rems_per_tex.num = 1
             /\ state'.s.rems_per_tex.den = state.s.main_body_font_size
             /\ state'.s.fonts = state.s.fonts]_vars

\* a font of size 20, then a font of size 10, then the text that ends the
\* initialization: rems_per_tex is 1/10
C26_Witness ==
    /\ state.tag = "Emitting" /\ result = "ok" /\ last.ev = "text_and_glyphs"
    /\ Len(seen) = 2 /\ seen[1].size = 20 /\ seen[2].size = 10
    /\ Cardinality(DOMAIN Inner.fonts) = 2
    /\ Inner.rems_per_tex = [num |-> 1, den |-> 10]
    /\ nev = 3

-----------------------------------------------------------------------------
(* What ends the initialization *)

\* text-and-glyphs, glyph run, the special tdux:emit, a special that starts
\* with tdux:provideFile
EndsInitialization(ev) ==
    \/ ev.ev \in {"text_and_glyphs", "glyph_run"}
    \/ /\ ev.ev = "special" /\ ev.e.utf8
       /\ \/ ev.e.cmd = "tdux:emit" /\ ev.e.arg = <<>>
          \/ ev.e.cmd \in {"tdux:provideFile ", "tdux:provideFile"}

\* C27: an event that succeeds while the state is Initializing leaves the
\* state Emitting exactly when it is a text-and-glyphs, a glyph run, the
\* special tdux:emit or a special starting with tdux:provideFile, and
\* Initializing otherwise; the specials as, ae, cs, ce and contentFinished
\* received then change nothing and log nothing, and the Emitting state starts
\* with no canvas, not sealed, and a buffer that holds at most the text of the
\* event that ended the initialization.
C27_WhatEndsInitialization ==
    [][(state.tag = "Initializing" /\ result' = "ok" /\ last'.ev # "none"
        /\ (nev' = nev + 1 \/ done' # done))
       => /\ state'.tag = (IF EndsInitialization(last') THEN "Emitting" ELSE "Initializing")
          /\ (\E cmd \in {"tdux:as ", "tdux:ae ", "tdux:cs ", "tdux:ce ",
                            "tdux:contentFinished"} : IsSpecial(last', cmd))
                => (state' = state /\ common' = common)
          /\ state'.tag = "Emitting"
                => /\ ~InCanvas(state') /\ ~Sealed(state')
                   /\ state'.s.current_content =
                         (IF last'.ev = "text_and_glyphs"
                          THEN OfChars(last'.e.text) ELSE <<>>)]_vars

\* as em, cs math and contentFinished while Initializing, then a text: the
\* buffer holds the text alone and nothing was logged
C27_Witness ==
    /\ state.tag = "Emitting" /\ result = "ok" /\ last.ev = "text_and_glyphs"
    /\ nev = 4
    /\ Chars(Inner.current_content) = <<"h">>
    /\ ~InCanvas(state) /\ ~Sealed(state)
    /\ common.warnings = <<>> /\ common.written = <<>>
    /\ Inner.next_template_path = <<>> /\ Inner.context = EmptyMap
    /\ DOMAIN Inner.fonts = {}

-----------------------------------------------------------------------------
(* Fonts after the initialization *)

-----------------------------------------------------------------------------
(* The font data that the layout reads *)

\* every registered font has its entry in the font-data table
FontDataComplete(self) ==
    \A f \in DOMAIN self.fonts : self.fonts[f].fd_key \in DOMAIN self.font_data

\* C29: until the content is sealed the font-data table has an entry for the
\* fd_key of every registered font; the table loses entries only at a
\* contentFinished, which seals the content; a layout runs only from a state
\* that is not sealed, so that no font-data lookup of either pass fails; and a
\* ce received after the sealing runs no layout and leaves the canvas that was
\* open at the sealing as it was.
C29_LayoutFindsItsFontData ==
    [][/\ (state'.tag # "Invalid" /\ ~Sealed(state')) => FontDataComplete(state'.s)
       /\ (state.tag = "Emitting" /\ state'.tag = "Emitting"
           /\ ~(DOMAIN state.s.font_data \subseteq DOMAIN state'.s.font_data))
          => (IsSpecial(last', "tdux:contentFinished") /\ Sealed(state'))
       /\ common'.layouts # common.layouts
          => /\ state.tag = "Emitting" /\ ~Sealed(state) /\ FontDataComplete(state.s)
             /\ IsSpecial(last', "tdux:ce ")
       /\ result' # "panic"
       /\ (Sealed(state) /\ IsSpecial(last', "tdux:ce "))
          => /\ common'.layouts = common.layouts
             /\ state'.s.current_canvas = state.s.current_canvas
             /\ state'.s.current_content = state.s.current_content]_vars

\* contentFinished arrived with a canvas open over a glyph, and the ce that
\* followed ran no layout: the canvas is still open and the table is empty
C29_Witness ==
    /\ Sealed(state) /\ InCanvas(state) /\ result = "ok"
    /\ IsSpecial(last, "tdux:ce ")
    /\ Inner.current_canvas.depth = 1
    /\ Len(Inner.current_canvas.glyphs) = 1
    /\ DOMAIN Inner.fonts = {1} /\ Inner.font_data = EmptyMap
    /\ common.layouts = 0 /\ common.font_emits = <<0>>
    /\ Count(common.warnings, PostFinish) = 1

-----------------------------------------------------------------------------
(* The font faces in the template context *)

\* C30: once the content is sealed, the @font-face block that contentFinished
\* put into the template context stays there at every later event, a further
\* contentFinished included, and is in the context of every file emitted
\* later; and no font-data entry is emitted twice in a run.
C30_FontFacesStay ==
    [][/\ (Sealed(state) /\ state'.tag = "Emitting")
          => /\ state'.s.context[TduxFontFaces] = state.s.context[TduxFontFaces]
             /\ EmitSucceeded =>
                   Last(common'.written).data.context[TduxFontFaces] =
                       state.s.context[TduxFontFaces]
       /\ \A i, j \in 1..Len(common'.font_emits) :
             common'.font_emits[i] = common'.font_emits[j] => i = j]_vars

-----------------------------------------------------------------------------
(* The path sanitizer: one path of `Paths` as the pending output path of a    *)
(* file finalize, as the destination of a provideFile special and as the      *)
(* destination of a copy registered with the asset manager.                   *)

SanitizeAssets == {ProvideFile(<<"b", " ">> \o path_in)}

NextSanitize ==
    \/ Special(PathSpecials, {TRUE}, MaxSanitizeEvents)
    \/ TryHandleSpecial(SanitizeAssets, MaxSanitizeEvents)
    \/ AssetsEmit

SpecSanitize == PathInit /\ [][NextSanitize]_vars

\* the step is a provideFile special copying b to the path
ProvidesFileAt(p) ==
    /\ state'.tag = "Emitting"
    /\ last' = [ev |-> "special", e |-> Sp("tdux:provideFile ", <<"b", " ">> \o p)]
    /\ nev' = nev + 1 /\ asset_out' = asset_out

\* the step is an emit special finalizing a file at the path from template t
FinalizesAt(p) ==
    /\ state'.tag = "Emitting"
    /\ IsSpecial(last', "tdux:emit") /\ last'.e.arg = <<>>
    /\ nev' = nev + 1 /\ asset_out' = asset_out
    /\ state'.s.next_output_path = p /\ state'.s.next_template_path = <<"t">>

\* the step is the asset manager emitting the one copy of b registered at the
\* path, after an ensemble without font files
EmitsCopyAt(p) ==
    /\ Emitted /\ asset_out'.fonts = NoFonts
    /\ assets.paths = (p :> [kind |-> "Copy", src |-> <<"b">>])

\* what the step wrote
NewFiles == SubSeq(common'.written, Len(common.written) + 1, Len(common'.written))

\* C31: a file finalize, a provideFile and the asset manager's copy each
\* accept every path without a `..` segment whose File::create succeeds, a
\* path beginning with '/' included, and write exactly one file at the output
\* base followed by the non-empty segments of the path, and write none
\* otherwise; the sanitizer resolves a path with a '/' put in front, or put
\* behind, as it resolves the path itself.
C31_OnlyNonEmptySegments ==
    [][LET p == path_in
           segs == Segments(p)
           accepted == ~HasDotDotSegment(p) /\ create_ok(segs)
       IN  /\ out_path_of(<<"/">> \o p) = out_path_of(p)
           /\ out_path_of(p \o <<"/">>) = out_path_of(p)
           /\ out_path_of(p).ok = ~HasDotDotSegment(p)
           /\ out_path_of(p).ok => out_path_of(p).path = segs
           /\ (ProvidesFileAt(p) \/ FinalizesAt(p)) =>
                 /\ (result' = "ok") = accepted
                 /\ Len(NewFiles) = (IF accepted THEN 1 ELSE 0)
                 /\ accepted => NewFiles[1].path = segs
           /\ EmitsCopyAt(p) =>
                 /\ (asset_out'.r = "ok") = accepted
                 /\ Len(NewFiles) = (IF accepted THEN 1 ELSE 0)
                 /\ accepted => NewFiles[1].path = segs]_vars

\* b was copied to //aa by a provideFile special and then by the asset
\* manager, both files written at aa below the output base
C31_Witness ==
    /\ path_in = <<"/", "/", "a", "a">>
    /\ last = [ev |-> "special", e |-> Sp("tdux:provideFile ", <<"b", " ">> \o path_in)]
    /\ result = "ok"
    /\ asset_out.op = "emit" /\ asset_out.r = "ok"
    /\ asset_out.registered = (path_in :> [kind |-> "Copy", src |-> <<"b">>])
    /\ Len(common.written) = 2
    /\ common.written[1].path = <<<<"a", "a">>>>
    /\ common.written[2].path = <<<<"a", "a">>>>

-----------------------------------------------------------------------------
(* The divisor of rems_per_tex *)

\* C32: at every step from Initializing to Emitting a font of non-zero size
\* has been registered and the main-body font size is not 0, so that the
\* divisor of rems_per_tex is not 0.
C32_DivisorIsNeverZero ==
    [][(state.tag = "Initializing" /\ state'.tag = "Emitting") =>
          /\ \E f \in DOMAIN state.s.fonts : state.s.fonts[f].size # 0
          /\ state.s.main_body_font_size # 0
          /\ state'.s.rems_per_tex.den # 0]_vars

====
